---- MODULE Spec2Model ----
(***************************************************************************)
(* Resource handlers of alchemy (AiSearch, AiSearchToken, D1Database,      *)
(* VpcService, DefaultRole) run by the resource lifecycle engine against a *)
(* remote provider.  One behaviour follows one declared resource of one    *)
(* kind through applies, replacement and destruction.  Every remote call   *)
(* of a handler is one step: the call is logged in `calls`, and the        *)
(* provider answers from its own state or with an injected fault.          *)
(***************************************************************************)
EXTENDS Integers, Sequences, FiniteSets, TLC

VARIABLES
  kind,     \* resource type of the declared resource
  scope,    \* ambient flags of the enclosing scope: [adopt, local]
  store,    \* state store record of the resource: [has, props, output]
  pending,  \* replaced outputs waiting for their delete phase
  remote,   \* provider state: name -> remote object
  mode,     \* what the engine is doing: "idle", "apply", "replace", "destroy", "sweep"
  phase,    \* this.phase of the running handler
  props,    \* declared properties handed to the handler
  output,   \* this.output, the prior output (Nil when undefined)
  pc,       \* position of the running handler
  loc,      \* the handler's local variables
  calls,    \* provider calls issued by the running handler invocation
  ret,      \* how the handler ended: [tag, val, err]
  orphans,  \* remote objects left by failed creates since the last completed apply
  applied,  \* the declaration the last run persisted the record for (Nil if it did not)
  nested,   \* the child resources the state store holds a record of
  account,  \* provider state: the account's tokens, [service, api]
  \* one run of a script that declares several resources
  stage,    \* "ended", "apply" (the script's body) or "sweep" (after finalize)
  script,   \* the resources the running script declares
  records,  \* the resources the state store holds a record of
  seen,     \* seenInCurrentRun: the resources whose handler returned in this run
  running,  \* the resources whose handler has begun and not yet ended
  attempted,\* the records whose delete phase the sweep has begun
  failed,   \* the records whose delete phase threw in this sweep
  raised,   \* the error the run ended with: "none", "apply" or "sweep"
  \* one call of a function that keeps no state
  eval,     \* the function, its argument and what it returned or threw
  \* one execution of runAiSearchJob
  job       \* where the job, its poll and its log loop are

handlerVars ==
  <<kind, scope, store, pending, remote, mode, phase, props, output, pc, loc, calls, ret,
    orphans, applied, nested, account>>

runVars == <<stage, script, records, seen, running, attempted, failed, raised>>

vars == <<handlerVars, runVars, eval, job>>

----------------------------------------------------------------------------
(* Values *)

Kinds == {"AiSearch", "AiSearchToken", "D1Database", "VpcService", "DefaultRole"}

\* an optional boolean property: undefined, true or false
Tri == {"unset", "true", "false"}

\* undefined
Nil == [nil |-> TRUE]

\* x ?? d
Coalesce(x, d) == IF x = "unset" THEN d ELSE x

\* JavaScript truthiness of an optional boolean
Truthy(x) == x = "true"

\* explicit names a declaration may give, and the name the scope derives
PhysicalName == "p"
Names == {"a", PhysicalName}

\* this.scope.createPhysicalName(id): the same name on every run
createPhysicalName == PhysicalName

----------------------------------------------------------------------------
(* Provider errors.  `cause` is why the provider answered with the error; *)
(* handlers never read it.                                                 *)

StatusBadRequest == 400
StatusNotFound == 404
CodeAiSearchExists == 7022
CodeVpcExists == 5101

\* bounds of the length of an AiSearch name
NameMinLength == 1
NameMaxLength == 32

NoErr == [api |-> FALSE, status |-> 0, code |-> 0, msg |-> "", cause |-> "none"]

\* the collision error each provider endpoint answers a create with
ExistsErr(k) ==
  [api |-> TRUE, status |-> StatusBadRequest,
   code |-> CASE k = "AiSearch" -> CodeAiSearchExists
              [] k = "VpcService" -> CodeVpcExists
              [] k = "D1Database" -> 7502
              [] OTHER -> 1001,
   msg |-> "already exists", cause |-> "exists"]

NotFoundErr ==
  [api |-> TRUE, status |-> StatusNotFound, code |-> 7002,
   msg |-> "not found", cause |-> "missing"]

ErrInternal ==
  [api |-> TRUE, status |-> 500, code |-> 10000,
   msg |-> "internal error", cause |-> "fault"]

\* a 400 that is not a collision
ErrBadRequest ==
  [api |-> TRUE, status |-> StatusBadRequest, code |-> 7001,
   msg |-> "bad request", cause |-> "fault"]

\* not a CloudflareApiError at all (fetch failed)
ErrNetwork ==
  [api |-> FALSE, status |-> 0, code |-> 0, msg |-> "fetch failed", cause |-> "fault"]

Faults == {ErrInternal, ErrBadRequest, ErrNetwork}

\* the answer of a request the handler did not wait for: the request is
\* still in flight when the handler ends
Unanswered == [api |-> FALSE, status |-> 0, code |-> 0, msg |-> "", cause |-> "in flight"]

\* an Error the handler itself throws
HandlerErr(m) == [api |-> FALSE, status |-> 0, code |-> 0, msg |-> m, cause |-> "handler"]

\* what a provider call may answer besides its regular answer
Answers == {NoErr} \cup Faults

\* a matcher that takes every API error for a match
IsAnyApiError(error, status, code) == error.api

\* isCloudflareApiError(error, match)
isCloudflareApiError(error, status, code) ==
  /\ error.api
  /\ (status = 0 \/ error.status = status)
  /\ (code = 0 \/ error.code = code)

----------------------------------------------------------------------------
(* Handler results and call log *)

NoRet == [tag |-> "none", val |-> Nil, err |-> NoErr]
RetOutput(o) == [tag |-> "output", val |-> o, err |-> NoErr]
RetThrow(e) == [tag |-> "throw", val |-> Nil, err |-> e]
\* this.destroy()
RetDestroy == [tag |-> "destroy", val |-> Nil, err |-> NoErr]
\* this.replace(force)
RetReplace(force) == [tag |-> "replace", val |-> [force |-> force], err |-> NoErr]

Call(op, target, body, e) == [op |-> op, target |-> target, body |-> body, err |-> e]

NoLoc == [adopt |-> "unset", name |-> "", payload |-> Nil, inst |-> Nil, err |-> NoErr,
          seen |-> {}]

NoRecord == [has |-> FALSE, props |-> Nil, output |-> Nil]

\* runAiSearchJob is not running: `main` is where the function is, `poll`
\* where its poll is after `attempts` requests, `logs` where pollLogs is
\* after `requests` requests, `after` of them issued once the poll had ended
NoJob ==
  [main |-> "none", poll |-> "idle", attempts |-> 0, done |-> FALSE,
   logs |-> "idle", requests |-> 0, after |-> 0, lastLogId |-> 0, error |-> NoErr]

HasId(o) == "id" \in DOMAIN o /\ o.id # ""

CallsOf(op) == {i \in 1..Len(calls) : calls[i].op = op}

----------------------------------------------------------------------------
(* Declared properties *)

\* source of an AiSearch declaration: an R2 source or a web-crawler source
AiSources ==
  {[type |-> "r2", bucket |-> "s1"],
   [type |-> "r2", bucket |-> "s2"],
   [type |-> "web-crawler", domain |-> "s1"]}

\* a name of 33 characters, a URL and a domain with a path
LongName == "abcdefghijklmnopqrstuvwxyz0123456"
UrlSources ==
  {[type |-> "web-crawler", domain |-> "https://s1"],
   [type |-> "web-crawler", domain |-> "s1/docs"]}

\* R2 source objects that set a jurisdiction: on a bucket given by its name,
\* and on a bucket given as an R2Bucket resource (`resource` holds what the
\* handler reads of the resource besides its name, `bucket`)
JurisdictionSources ==
  {[type |-> "r2", bucket |-> "s1", jurisdiction |-> "eu"],
   [type |-> "r2", bucket |-> "s1", jurisdiction |-> "eu",
    resource |-> [jurisdiction |-> "default"]]}

\* identifiers of service tokens: one UUID, one too short, one with a letter
\* that is no hexadecimal digit
ValidTokenId == "0123abcd-0000-4000-8000-0123456789AB"
BadTokenIds == {"not-a-uuid", "0123abcd-0000-4000-8000-0123456789xy"}

\* props.token when no token resource is declared
NoToken == [tokenId |-> "unset"]

\* declarations of an AiSearch: every combination of the options on a valid
\* name, source and tokenId; names, sources and token ids that fail validation
\* on declarations with the other options at their defaults; declarations
\* that leave the token to the handler; declarations of a source object with
\* a jurisdiction
AiSearchProps ==
  [name : {"a"}, adopt : Tri, delete : {"unset", "false"},
   source : AiSources, maxNumResults : {10, 25}, indexOnCreate : {"unset", "false"},
   tokenId : {ValidTokenId}, token : {NoToken}]
  \cup
  {p \in [name : {"a", "", LongName}, adopt : {"unset"}, delete : {"unset"},
           source : {[type |-> "r2", bucket |-> "s1"]} \cup UrlSources,
           maxNumResults : {10}, indexOnCreate : {"unset"},
           tokenId : {"unset", ValidTokenId} \cup BadTokenIds,
           token : [tokenId : {"unset", ValidTokenId} \cup BadTokenIds]] :
     /\ p.tokenId # "unset" \/ p.token # NoToken
     /\ p.tokenId # "unset" => p.token = NoToken}
  \cup
  [name : {"a"}, adopt : {"unset"}, delete : {"unset", "false"},
   source : {[type |-> "r2", bucket |-> "s1"]}, maxNumResults : {10, 25},
   indexOnCreate : {"false"}, tokenId : {"unset"}, token : {NoToken}]
  \cup
  [name : {"a"}, adopt : {"unset"}, delete : {"unset"},
   source : JurisdictionSources, maxNumResults : {10},
   indexOnCreate : {"false"}, tokenId : {ValidTokenId}, token : {NoToken}]

AiSearchTokenProps ==
  [name : {"unset", "a"}, adopt : Tri, delete : {"unset", "false"}]

\* a hostname host with resolver IPs on a tunnel given by id, and an IPv4 host
\* on a tunnel given as a Tunnel resource
VpcHosts ==
  {[hostname |-> "internal", resolverNetwork |-> [tunnelId |-> "t1", resolverIps |-> <<"10.0.0.53">>]],
   [ipv4 |-> "192.168.1.100", network |-> [tunnel |-> [tunnelId |-> "t1"]]]}

\* the interface declares no delete property; a declaration that carries one
\* anyway reaches the handler with it
VpcServiceProps ==
  {p \in [name : {"unset", "a"}, adopt : Tri, httpPort : {80, 8080}, host : VpcHosts,
           delete : {"unset", "false"}] :
     p.delete = "false" => (p.adopt = "unset" /\ p.httpPort = 80)}

\* declarations of a D1Database; the delete guard and dev.remote are varied
\* on declarations that leave the other options at their defaults
D1DatabaseProps ==
  {p \in [name : {"unset", "a"}, adopt : Tri, delete : {"unset", "false"},
           primaryLocationHint : {"unset", "wnam"}, readReplication : {"unset", "auto"},
           devRemote : {"unset", "true"}] :
     (p.delete = "false" \/ p.devRemote = "true")
       => (p.adopt = "unset" /\ p.primaryLocationHint = "unset"
           /\ p.readReplication = "unset")}

\* declarations of a DefaultRole: a database and an optional branch
DefaultRoleProps ==
  {p \in [database : {"a", "p"}, branch : {"unset", "dev"}, forceReset : {"unset", "true"},
           delete : {"unset", "false"}] :
     /\ p.database = "p" => p.branch = "unset"
     /\ p.delete = "false" => p.forceReset = "unset"}

PropsOf(k) ==
  CASE k = "AiSearch" -> AiSearchProps
    [] k = "DefaultRole" -> DefaultRoleProps
    [] k = "D1Database" -> D1DatabaseProps
    [] k = "AiSearchToken" -> AiSearchTokenProps
    [] k = "VpcService" -> VpcServiceProps


----------------------------------------------------------------------------
(* The provider *)

Absent == [exists |-> FALSE]

NoRemote == [n \in Names |-> Absent]

\* the branches a default role can be reset on, and the provider's roles
RoleTargets == {<<"a", "main">>, <<"a", "dev">>, <<"p", "main">>}
NoRoles == [t \in RoleTargets |-> [exists |-> FALSE, version |-> 0]]

\* credentials are reset at most this often on one branch
MaxResets == 3

\* the provider's regular answer to a create of `name`, unless it fails with `a`
CreateAnswer(a, name) ==
  IF a # NoErr THEN a
  ELSE IF remote[name].exists THEN ExistsErr(kind)
  ELSE NoErr

\* the provider's regular answer to a get, update or delete of `id`
LookupAnswer(a, id) ==
  IF a # NoErr THEN a
  ELSE IF id \in DOMAIN remote /\ remote[id].exists THEN NoErr
  ELSE NotFoundErr

\* identifiers the provider hands out: <<tag, name>>; NameOf is the object
\* an identifier belongs to
TokenId(n) == <<"token", n>>
ServiceId(n) == <<"service", n>>
Uuid(n) == <<"uuid", n>>
NameOf(id) == id[2]

\* the id the provider gives the service token that the child AiSearchToken
\* of an AiSearch registers
ChildTokenId == "c41d0000-0000-4000-8000-000000000001"

\* the vectorize index the provider creates with an instance
VectorizeName(n) == <<"vectorize", n>>

\* the instance the provider stores for a create or update payload
AiSearchStored(payload) ==
  [exists |-> TRUE, type |-> payload.type, source |-> payload.source,
   max_num_results |-> payload.max_num_results]

\* AiSearch.ApiResponse for the instance `id` of provider state `rem`
AiSearchResponse(rem, id) ==
  [id |-> id, type |-> rem[id].type, source |-> rem[id].source,
   max_num_results |-> rem[id].max_num_results,
   vectorize_name |-> VectorizeName(id)]

----------------------------------------------------------------------------
(* One step of a handler: only the handler's own state and the provider   *)
(* change.                                                                 *)

\* the account's tokens after the child resources `children` went through
\* their delete phase: the child AiSearchToken deletes its registration, the
\* AccountApiToken its token, unless they were declared with delete: false
Cascade(children, p) ==
  IF children = {} \/ p.delete = "false" THEN account
  ELSE [service |-> account.service \ (IF "token" \in children THEN {createPhysicalName} ELSE {}),
        api |-> account.api \ (IF "account-token" \in children THEN {"account-token"} ELSE {})]

\* the declaration the recorded child resources were last applied with
ChildProps == IF store.has THEN store.props ELSE props

\* a step that also applies a child resource: the child records and the
\* account's tokens change with it
StepChild(newPc, newLoc, newCalls, newRet, newNested, newAccount) ==
  /\ pc' = newPc
  /\ loc' = newLoc
  /\ calls' = newCalls
  /\ ret' = newRet
  /\ nested' = newNested
  /\ account' = newAccount
  /\ UNCHANGED <<kind, scope, store, pending, remote, mode, phase, props, output,
                 orphans, applied, runVars, eval, job>>

Step(newPc, newLoc, newCalls, newRemote, newRet) ==
  /\ pc' = newPc
  /\ loc' = newLoc
  /\ calls' = newCalls
  /\ remote' = newRemote
  /\ ret' = newRet
  /\ orphans' = {o \in orphans : newRemote[o.name].exists}
  /\ UNCHANGED <<kind, scope, store, pending, mode, phase, props, output, applied,
                 nested, account, runVars, eval, job>>

\* the handler ends with result r after logging the calls c
End(newLoc, newCalls, newRemote, r) == Step("done", newLoc, newCalls, newRemote, r)

\* a handler that takes the scope's flag whatever the declaration says
ScopeAdoptOnly(p, s) == s.adopt

\* const adopt = props.adopt ?? this.scope.adopt
EffectiveAdopt(p, s) == Coalesce(p.adopt, s.adopt)

----------------------------------------------------------------------------
(* snakeToCamelString, and the keys of an API response *)

\* s.replace(/_([a-z])/g, (_, c) => c.toUpperCase())
RECURSIVE snakeToCamelString(_)
snakeToCamelString(s) ==
  LET Lower == "abcdefghijklmnopqrstuvwxyz"
      Upper == "ABCDEFGHIJKLMNOPQRSTUVWXYZ"
      IsLower(c) == \E i \in 1..26 : SubSeq(Lower, i, i) = c
      ToUpper(c) == LET i == CHOOSE j \in 1..26 : SubSeq(Lower, j, j) = c
                    IN SubSeq(Upper, i, i)
  IN
  IF Len(s) = 0 THEN s
  ELSE IF Len(s) >= 2 /\ SubSeq(s, 1, 1) = "_" /\ IsLower(SubSeq(s, 2, 2))
  THEN ToUpper(SubSeq(s, 2, 2)) \o snakeToCamelString(SubSeq(s, 3, Len(s)))
  ELSE SubSeq(s, 1, 1) \o snakeToCamelString(SubSeq(s, 2, Len(s)))

\* the keys of AiSearch.ApiResponse, a flat object, as snakeToCamelObjectDeep
\* renames them
AiSearchResponseKeys ==
  [k \in {"id", "type", "source", "max_num_results", "vectorize_name"} |->
     snakeToCamelString(k)]

----------------------------------------------------------------------------
(* AiSearch *)

\* props.name ?? this.scope.createPhysicalName(id, "-", 32)
AiSearchName(p) == Coalesce(p.name, createPhysicalName)

\* name.length < 1 || name.length > 32
AiSearchNameRefused(name) == Len(name) < NameMinLength \/ Len(name) > NameMaxLength

\* String.prototype.includes
Includes(str, part) ==
  \E i \in 1..(Len(str) - Len(part) + 1) : SubSeq(str, i, i + Len(part) - 1) = part

\* normalizeSource up to its first request: only a web-crawler source is
\* checked before the provider is asked, by validateWebCrawlerSourceDomain,
\* which refuses a domain that looks like a URL or carries a path
SourceFormatError(source) ==
  IF source.type # "web-crawler" THEN NoErr
  ELSE IF Includes(source.domain, "://") THEN HandlerErr("invalid domain format: not a URL")
  ELSE IF Includes(source.domain, "/") THEN HandlerErr("invalid domain format: no paths")
  ELSE NoErr

\* validateTokenId(id):
\* /^[0-9a-f]{8}-[0-9a-f]{4}-[0-9a-f]{4}-[0-9a-f]{4}-[0-9a-f]{12}$/i.test(id)
validateTokenId(id) ==
  LET HexDigits ==
        {"0", "1", "2", "3", "4", "5", "6", "7", "8", "9",
         "a", "b", "c", "d", "e", "f", "A", "B", "C", "D", "E", "F"}
      IsUuid ==
        /\ Len(id) = 36
        /\ \A i \in 1..36 :
             IF i \in {9, 14, 19, 24}
             THEN SubSeq(id, i, i) = "-"
             ELSE SubSeq(id, i, i) \in HexDigits
  IN IF IsUuid THEN NoErr ELSE HandlerErr("invalid token ID")

\* normalizeTokenId for a declared tokenId or token
TokenIdError(p) ==
  IF p.tokenId # "unset" THEN validateTokenId(p.tokenId)
  ELSE IF p.token # NoToken THEN validateTokenId(p.token.tokenId)
  ELSE NoErr

\* a handler that takes the token id from the child token only
childTokenIdOnly(p, child) == child

\* what normalizeTokenId returns: props.tokenId, else props.token.tokenId,
\* else the tokenId of the child AiSearchToken
normalizeTokenId(p, child) ==
  IF p.tokenId # "unset" THEN p.tokenId
  ELSE IF p.token # NoToken THEN p.token.tokenId
  ELSE child

\* what normalizeSource returns for a source object: with an R2Bucket
\* resource as bucket, the name and the jurisdiction of the resource; else
\* the source as it is
normalizeSource(source) ==
  IF source.type = "r2" /\ "resource" \in DOMAIN source
  THEN [type |-> "r2", bucket |-> source.bucket,
        jurisdiction |-> source.resource.jurisdiction]
  ELSE [k \in DOMAIN source \ {"resource"} |-> source[k]]

\* the jurisdiction validateBucketSource asks getBucket with:
\* jurisdiction: R2BucketJurisdiction = "default"
BucketJurisdiction(source) ==
  IF "jurisdiction" \in DOMAIN source THEN source.jurisdiction ELSE "default"

\* the payload built from the normalized source, the declared properties and
\* the normalized token id
AiSearchPayload(name, p, tokenId) ==
  LET source == normalizeSource(p.source) IN
  [id |-> name,
   source |-> IF source.type = "r2" THEN source.bucket ELSE source.domain,
   type |-> source.type,
   r2_jurisdiction |->
     IF source.type = "r2" /\ BucketJurisdiction(source) # "default"
     THEN source.jurisdiction ELSE "unset",
   max_num_results |-> p.maxNumResults,
   token_id |-> tokenId]

\* a handler that leaves the instance with the provider
AiSearchNeverDeletes(p, o) == FALSE

\* props.delete !== false && this.output?.id
AiSearchShouldDelete(p, o) == p.delete # "false" /\ HasId(o)

\* const replace = "source" in this.output && (...)
AiSearchReplace(payload, o) ==
  /\ "source" \in DOMAIN o
  /\ \/ "type" \notin DOMAIN o
     \/ payload.type # o.type
     \/ payload.source # o.source

\* a handler that knows the current output shape only
AiSearchReplaceLegacyNever(payload, o) == FALSE

\* const replaceLegacy = "sourceType" in this.output && (...)
AiSearchReplaceLegacy(payload, o) ==
  /\ "sourceType" \in DOMAIN o
  /\ \/ payload.type # o.sourceType
     \/ /\ payload.type = "r2"
        /\ "sourceBucket" \in DOMAIN o
        /\ payload.source # o.sourceBucket
     \/ /\ payload.type = "web-crawler"
        /\ "sourceDomain" \in DOMAIN o
        /\ payload.source # o.sourceDomain

\* a catch clause that takes no error for a collision
AiSearchIsAlreadyExistsNever(error) == FALSE

\* const isAlreadyExistsError = error instanceof CloudflareApiError &&
\*   error.status === 400 && errorData.some((e) => e.code === 7022)
AiSearchIsAlreadyExists(error) ==
  error.api /\ error.status = StatusBadRequest /\ error.code = CodeAiSearchExists

\* { ...snakeToCamelObjectDeep(instance), name: instance.id }
AiSearchOutput(instance) ==
  LET o == [c \in {AiSearchResponseKeys[k] : k \in DOMAIN instance} |->
              instance[CHOOSE k \in DOMAIN instance : AiSearchResponseKeys[k] = c]]
  IN
  [k \in DOMAIN o \cup {"name"} |-> IF k = "name" THEN instance.id ELSE o[k]]

\* entry of the handler: the adopt flag, then the delete phase or the name
AiSearchStart ==
  /\ kind = "AiSearch" /\ pc = "start"
  /\ IF phase = "delete"
     THEN IF AiSearchShouldDelete(props, output)
          THEN Step("as_delete_index", loc, calls, remote, ret)
          ELSE End(loc, calls, remote, RetDestroy)
     ELSE LET l == [loc EXCEPT !.adopt = EffectiveAdopt(props, scope),
                               !.name = AiSearchName(props)]
          IN
          IF AiSearchNameRefused(l.name)
          THEN End(l, calls, remote, RetThrow(HandlerErr("name must be 1-32 characters")))
          ELSE Step("as_normalize", l, calls, remote, ret)

\* await deleteIndex(api, this.output.vectorizeName)
AiSearchDeleteIndex ==
  /\ kind = "AiSearch" /\ pc = "as_delete_index"
  /\ \E a \in Answers :
       LET c == Append(calls, Call("deleteIndex", output.vectorizeName, Nil, a)) IN
       IF a = NoErr
       THEN Step("as_delete_instance", loc, c, remote, ret)
       ELSE End(loc, c, remote, RetThrow(a))

\* await deleteAiSearchInstance(api, this.output.id); return this.destroy()
AiSearchDeleteInstance ==
  /\ kind = "AiSearch" /\ pc = "as_delete_instance"
  /\ \E a \in Answers :
       LET e == LookupAnswer(a, output.id)
           c == Append(calls, Call("delete", output.id, Nil, e))
       IN
       IF e = NoErr
       THEN End(loc, c, [remote EXCEPT ![output.id] = Absent], RetDestroy)
       ELSE IF e.api /\ e.status = StatusNotFound
       THEN End(loc, c, remote, RetDestroy)
       ELSE End(loc, c, remote, RetThrow(e))

\* normalizeTokenId: neither tokenId nor token is declared
AiSearchAutoToken(p) == p.tokenId = "unset" /\ p.token = NoToken

\* if (this.phase === "update" && this.output?.id): replace or update, else create
AiSearchBranch(l, c, n, acct) ==
  IF phase = "update" /\ HasId(output)
  THEN IF AiSearchReplace(l.payload, output) \/ AiSearchReplaceLegacy(l.payload, output)
       THEN StepChild("done", l, c, RetReplace(TRUE), n, acct)
       ELSE StepChild("as_update", l, c, ret, n, acct)
  ELSE StepChild("as_create", l, c, ret, n, acct)

\* how far the child AiSearchToken("token"), which normalizeTokenId applies
\* while normalizeSource runs, may have come when the handler ends on the
\* rejection of normalizeSource: the calls logged after c, the child records
\* and the account's tokens
ChildTokenRuns(c) ==
  IF "token" \in nested
  THEN {[calls |-> c, nested |-> nested, account |-> account],
        [calls |-> c, nested |-> nested \ {"account-token"},
         account |-> Cascade(nested \cap {"account-token"}, ChildProps)]}
  ELSE {[calls |-> c, nested |-> nested, account |-> account],
        [calls |-> Append(c, Call("accountToken", "account-token", Nil, NoErr)),
         nested |-> nested \cup {"account-token"},
         account |-> [account EXCEPT !.api = @ \cup {"account-token"}]],
        [calls |-> c \o <<Call("accountToken", "account-token", Nil, NoErr),
                          Call("registerToken", createPhysicalName, Nil, NoErr)>>,
         nested |-> nested \cup {"token", "account-token"},
         account |-> [service |-> account.service \cup {createPhysicalName},
                      api |-> account.api \cup {"account-token"}]]}

\* Promise.all([normalizeSource(props.source), normalizeTokenId()]): both
\* are started, the source's request is issued unless its format is refused,
\* and the first rejection ends the handler, whatever the other promise is
\* doing: a source request may stay unanswered, and the child token of
\* normalizeTokenId may be applied in part or in full.  When neither
\* rejects, the payload is built and, in the update phase, the replacement
\* is decided
AiSearchNormalize ==
  /\ kind = "AiSearch" /\ pc = "as_normalize"
  /\ LET payload == AiSearchPayload(loc.name, props, normalizeTokenId(props, ChildTokenId))
         l == [loc EXCEPT !.payload = payload]
         srcErr == SourceFormatError(props.source)
         tokErr == TokenIdError(props)
         source == normalizeSource(props.source)
         asked == IF source.type = "r2"
                  THEN [jurisdiction |-> BucketJurisdiction(source)] ELSE Nil
         request(a) == Append(calls, Call("validateSource", payload.source, asked, a))
         runs(c) == IF AiSearchAutoToken(props) THEN ChildTokenRuns(c)
                    ELSE {[calls |-> c, nested |-> nested, account |-> account]}
     IN
     IF srcErr # NoErr \/ tokErr # NoErr
     THEN \E e \in {srcErr, tokErr} \ {NoErr} :
          \E run \in runs(IF srcErr = NoErr THEN request(Unanswered) ELSE calls) :
            StepChild("done", loc, run.calls, RetThrow(e), run.nested, run.account)
     ELSE \/ \E a \in Answers :
               IF a # NoErr
               THEN \E run \in runs(request(a)) :
                      StepChild("done", loc, run.calls,
                                RetThrow(HandlerErr("failed to validate source")),
                                run.nested, run.account)
               ELSE IF AiSearchAutoToken(props)
               THEN Step("as_token", l, request(a), remote, ret)
               ELSE AiSearchBranch(l, request(a), nested, account)
          \/ /\ AiSearchAutoToken(props) /\ "token" \notin nested
             /\ \E a \in Faults :
                  StepChild("done", loc,
                            request(Unanswered)
                              \o <<Call("accountToken", "account-token", Nil, NoErr),
                                   Call("registerToken", createPhysicalName, Nil, a)>>,
                            RetThrow(a), nested \cup {"account-token"},
                            [account EXCEPT !.api = @ \cup {"account-token"}])

\* const token = await AiSearchToken("token", {..., delete: props.delete}):
\* the child resource, named by createPhysicalName, returns its recorded
\* output in its update phase without declaring its account API token, which
\* the sweep of the child's scope then deletes; in its create phase it has an
\* account API token made and registers it
AiSearchChildToken ==
  /\ kind = "AiSearch" /\ pc = "as_token"
  /\ IF "token" \in nested
     THEN AiSearchBranch([loc EXCEPT !.seen = @ \cup {"token"}], calls,
                         nested \ {"account-token"},
                         Cascade(nested \cap {"account-token"}, ChildProps))
     ELSE \E a \in Answers :
            LET c == calls \o <<Call("accountToken", "account-token", Nil, NoErr),
                                Call("registerToken", createPhysicalName, Nil, a)>>
                n == nested \cup {"account-token"}
                acct == [account EXCEPT !.api = @ \cup {"account-token"}]
            IN
            IF a # NoErr
            THEN StepChild("done", [loc EXCEPT !.seen = @ \cup {"account-token"}], c,
                           RetThrow(a), n, acct)
            ELSE AiSearchBranch([loc EXCEPT !.seen = @ \cup {"token", "account-token"}], c,
                                n \cup {"token"},
                                [acct EXCEPT !.service = @ \cup {createPhysicalName}])

\* instance = await updateAiSearchInstance(api, this.output.id, payload)
AiSearchUpdate ==
  /\ kind = "AiSearch" /\ pc = "as_update"
  /\ \E a \in Answers :
       LET e == LookupAnswer(a, output.id)
           c == Append(calls, Call("update", output.id, loc.payload, e))
           rem == [remote EXCEPT ![output.id] = AiSearchStored(loc.payload)]
           inst == AiSearchResponse(rem, output.id)
       IN
       IF e = NoErr
       THEN End([loc EXCEPT !.inst = inst], c, rem, RetOutput(AiSearchOutput(inst)))
       ELSE End(loc, c, remote, RetThrow(e))

\* try { instance = await createAiSearchInstance(api, payload) } catch ...
AiSearchCreate ==
  /\ kind = "AiSearch" /\ pc = "as_create"
  /\ \E a \in Answers :
       LET e == CreateAnswer(a, loc.payload.id)
           c == Append(calls, Call("create", loc.payload.id, loc.payload, e))
           rem == [remote EXCEPT ![loc.payload.id] = AiSearchStored(loc.payload)]
       IN
       IF e = NoErr
       THEN Step("as_index", [loc EXCEPT !.inst = AiSearchResponse(rem, loc.payload.id)],
                 c, rem, ret)
       ELSE IF AiSearchIsAlreadyExists(e) /\ Truthy(loc.adopt)
       THEN Step("as_adopt_get", [loc EXCEPT !.err = e], c, remote, ret)
       ELSE End([loc EXCEPT !.err = e], c, remote, RetThrow(e))

\* instance = await getAiSearchInstance(api, name)
AiSearchAdoptGet ==
  /\ kind = "AiSearch" /\ pc = "as_adopt_get"
  /\ \E a \in Answers :
       LET e == LookupAnswer(a, loc.name)
           c == Append(calls, Call("get", loc.name, Nil, e))
       IN
       IF e = NoErr
       THEN Step("as_adopt_update", [loc EXCEPT !.inst = AiSearchResponse(remote, loc.name)],
                 c, remote, ret)
       ELSE End(loc, c, remote, RetThrow(e))

\* instance = await updateAiSearchInstance(api, instance.id, payload)
AiSearchAdoptUpdate ==
  /\ kind = "AiSearch" /\ pc = "as_adopt_update"
  /\ \E a \in Answers :
       LET e == LookupAnswer(a, loc.inst.id)
           c == Append(calls, Call("update", loc.inst.id, loc.payload, e))
           rem == [remote EXCEPT ![loc.inst.id] = AiSearchStored(loc.payload)]
       IN
       IF e = NoErr
       THEN Step("as_index", [loc EXCEPT !.inst = AiSearchResponse(rem, loc.inst.id)],
                 c, rem, ret)
       ELSE End(loc, c, remote, RetThrow(e))

\* a handler that never indexes
AiSearchNeverIndexes(p) == FALSE

\* props.indexOnCreate !== false
AiSearchShouldIndex(p) == p.indexOnCreate # "false"

\* if (props.indexOnCreate !== false) await runAiSearchJob(...); return
\* output.  runAiSearchJob returns when the job reported its end, and
\* throws when creating the job failed or the poll gave up
AiSearchIndex ==
  /\ kind = "AiSearch" /\ pc = "as_index"
  /\ IF AiSearchShouldIndex(props)
     THEN \E a \in Answers :
            LET c == Append(calls, Call("runJob", loc.inst.id, Nil, a)) IN
            IF a = NoErr
            THEN End(loc, c, remote, RetOutput(AiSearchOutput(loc.inst)))
            ELSE End(loc, c, remote, RetThrow(a))
     ELSE End(loc, calls, remote, RetOutput(AiSearchOutput(loc.inst)))

AiSearchHandler ==
  \/ AiSearchStart
  \/ AiSearchDeleteIndex
  \/ AiSearchDeleteInstance
  \/ AiSearchNormalize
  \/ AiSearchChildToken
  \/ AiSearchUpdate
  \/ AiSearchCreate
  \/ AiSearchAdoptGet
  \/ AiSearchAdoptUpdate
  \/ AiSearchIndex

----------------------------------------------------------------------------
(* AiSearchToken *)

\* a credential left as the plain string it is
Plain(v) == [secret |-> FALSE, unencrypted |-> v]

\* alchemy.secret(value): a credential is either wrapped or a plain string
Secret(v) == [secret |-> TRUE, unencrypted |-> v]

\* the account API token the child resource AccountApiToken returns
AccountToken == [id |-> "account-token-id", value |-> Secret("account-token-value")]

\* the token the provider stores for a create payload
AiSearchTokenStored(payload) == [exists |-> TRUE, cf_api_id |-> payload.cf_api_id]

\* AiSearchTokenApiResponse for the token named n
AiSearchTokenResponse(rem, n) ==
  [id |-> TokenId(n), name |-> n, cf_api_id |-> rem[n].cf_api_id]

\* props.name ?? this.scope.createPhysicalName(id)
AiSearchTokenName(p) == Coalesce(p.name, createPhysicalName)

\* a handler that leaves the registration with the provider
AiSearchTokenNeverDeletes(p, o) == FALSE

\* this.output?.tokenId && props.delete !== false
AiSearchTokenShouldDelete(p, o) == "tokenId" \in DOMAIN o /\ p.delete # "false"

\* catch (error): error instanceof CloudflareApiError && props.adopt
AiSearchTokenShouldAdopt(error, p) == error.api /\ Truthy(p.adopt)

\* the output returned for the provider's token t
AiSearchTokenOutput(t, accountToken, cfApiKey) ==
  [type |-> "ai_search_token", tokenId |-> t.id, accountTokenId |-> accountToken.id,
   name |-> t.name, cfApiId |-> t.cf_api_id, cfApiKey |-> Secret(cfApiKey)]

\* entry of the handler: delete phase, update phase, or on to the create
AiSearchTokenStart ==
  /\ kind = "AiSearchToken" /\ pc = "start"
  /\ IF phase = "delete"
     THEN IF AiSearchTokenShouldDelete(props, output)
          THEN Step("tk_delete", loc, calls, remote, ret)
          ELSE End(loc, calls, remote, RetDestroy)
     ELSE IF phase = "update" /\ "tokenId" \in DOMAIN output
     THEN End(loc, calls, remote, RetOutput(output))
     ELSE Step("tk_account_token",
               [loc EXCEPT !.name = AiSearchTokenName(props), !.adopt = props.adopt],
               calls, remote, ret)

\* await deleteAiSearchToken(api, this.output.tokenId); return this.destroy()
AiSearchTokenDelete ==
  /\ kind = "AiSearchToken" /\ pc = "tk_delete"
  /\ \E a \in Answers :
       LET e == LookupAnswer(a, NameOf(output.tokenId))
           c == Append(calls, Call("delete", output.tokenId, Nil, e))
       IN
       IF e = NoErr
       THEN End(loc, c, [remote EXCEPT ![NameOf(output.tokenId)] = Absent], RetDestroy)
       ELSE IF e.api /\ e.status = StatusNotFound
       THEN End(loc, c, remote, RetDestroy)
       ELSE End(loc, c, remote, RetThrow(e))

\* const accountToken = await AccountApiToken("account-token", {...})
AiSearchTokenAccountToken ==
  /\ kind = "AiSearchToken" /\ pc = "tk_account_token"
  /\ \E a \in Answers :
       LET c == Append(calls, Call("accountToken", "account-token", Nil, a)) IN
       IF a = NoErr
       THEN StepChild("tk_create",
                      [loc EXCEPT !.inst = AccountToken, !.seen = @ \cup {"account-token"}],
                      c, ret, nested \cup {"account-token"},
                      [account EXCEPT !.api = @ \cup {"account-token"}])
       ELSE End(loc, c, remote, RetThrow(a))

\* try { result = await createAiSearchToken(...); return {...} } catch ...
AiSearchTokenCreate ==
  /\ kind = "AiSearchToken" /\ pc = "tk_create"
  /\ \E a \in Answers :
       LET payload == [name |-> loc.name, cf_api_id |-> loc.inst.id,
                       cf_api_key |-> loc.inst.value.unencrypted]
           e == CreateAnswer(a, loc.name)
           c == Append(calls, Call("create", loc.name, payload, e))
           rem == [remote EXCEPT ![loc.name] = AiSearchTokenStored(payload)]
       IN
       IF e = NoErr
       THEN End([loc EXCEPT !.payload = payload], c, rem,
                RetOutput(AiSearchTokenOutput(AiSearchTokenResponse(rem, loc.name),
                                              loc.inst, payload.cf_api_key)))
       ELSE IF AiSearchTokenShouldAdopt(e, props)
       THEN Step("tk_adopt_list", [loc EXCEPT !.payload = payload, !.err = e], c, remote, ret)
       ELSE End([loc EXCEPT !.payload = payload, !.err = e], c, remote, RetThrow(e))

\* const tokens = await listAiSearchTokens(api); tokens.find(by name)
AiSearchTokenAdoptList ==
  /\ kind = "AiSearchToken" /\ pc = "tk_adopt_list"
  /\ \E a \in Answers :
       LET c == Append(calls, Call("list", loc.name, Nil, a)) IN
       IF a # NoErr
       THEN End(loc, c, remote, RetThrow(a))
       ELSE IF remote[loc.name].exists
       THEN End(loc, c, remote,
                RetOutput(AiSearchTokenOutput(AiSearchTokenResponse(remote, loc.name),
                                              loc.inst, loc.payload.cf_api_key)))
       ELSE End(loc, c, remote, RetThrow(loc.err))

AiSearchTokenHandler ==
  \/ AiSearchTokenStart
  \/ AiSearchTokenDelete
  \/ AiSearchTokenAccountToken
  \/ AiSearchTokenCreate
  \/ AiSearchTokenAdoptList

----------------------------------------------------------------------------
(* VpcService *)

\* the record r without the field f: const { f, ...rest } = r
Rest(r, f) == [k \in DOMAIN r \ {f} |-> r[k]]

\* { ...r, f: v }
With(r, f, v) == [k \in DOMAIN r \cup {f} |-> IF k = f THEN v ELSE r[k]]

\* r.f, undefined when r has no such field
Field(r, f) == IF f \in DOMAIN r THEN r[f] ELSE Nil

normalizeNetwork(network) ==
  IF "tunnelId" \in DOMAIN network
  THEN With(Rest(network, "tunnelId"), "tunnel_id", network.tunnelId)
  ELSE With(Rest(network, "tunnel"), "tunnel_id", network.tunnel.tunnelId)

normalizeHost(host) ==
  IF "hostname" \in DOMAIN host
  THEN [hostname |-> host.hostname, resolver_network |-> normalizeNetwork(host.resolverNetwork)]
  ELSE With(host, "network", normalizeNetwork(host.network))

\* const input: ConnectivityService.Input = {...}
VpcServiceInput(p) ==
  [name |-> Coalesce(p.name, createPhysicalName), type |-> "http",
   http_port |-> p.httpPort, host |-> normalizeHost(p.host)]

\* the service the provider stores for an input, and its answer
VpcServiceStored(input) == [exists |-> TRUE, input |-> input]
VpcServiceResponse(rem, n) == With(rem[n].input, "service_id", ServiceId(n))

formatOutput(service) ==
  [name |-> service.name, serviceId |-> service.service_id, serviceType |-> service.type,
   httpPort |-> service.http_port,
   host |-> IF "hostname" \in DOMAIN service.host
            THEN [hostname |-> service.host.hostname,
                  resolverNetwork |->
                    [tunnelId |-> service.host.resolver_network.tunnel_id,
                     resolverIps |-> Field(service.host.resolver_network, "resolver_ips")]]
            ELSE With(service.host, "network", [tunnelId |-> service.host.network.tunnel_id]),
   type |-> "vpc_service"]

\* isCloudflareApiError(err, { code: 5101 }) && adopt
VpcServiceShouldAdopt(err, adopt) ==
  isCloudflareApiError(err, 0, CodeVpcExists) /\ Truthy(adopt)

\* entry of the handler: delete phase, or the input and the phase switch
VpcServiceStart ==
  /\ kind = "VpcService" /\ pc = "start"
  /\ IF phase = "delete"
     THEN IF "serviceId" \in DOMAIN output
          THEN Step("vpc_delete", loc, calls, remote, ret)
          ELSE End(loc, calls, remote, RetDestroy)
     ELSE LET l == [loc EXCEPT !.payload = VpcServiceInput(props),
                               !.name = VpcServiceInput(props).name]
          IN
          IF phase = "create"
          THEN Step("vpc_create", [l EXCEPT !.adopt = EffectiveAdopt(props, scope)],
                    calls, remote, ret)
          ELSE Step("vpc_update", l, calls, remote, ret)

\* await deleteService(api, this.output.serviceId); return this.destroy()
VpcServiceDelete ==
  /\ kind = "VpcService" /\ pc = "vpc_delete"
  /\ \E a \in Answers :
       LET e == LookupAnswer(a, NameOf(output.serviceId))
           c == Append(calls, Call("delete", output.serviceId, Nil, e))
       IN
       IF e = NoErr
       THEN End(loc, c, [remote EXCEPT ![NameOf(output.serviceId)] = Absent], RetDestroy)
       ELSE IF isCloudflareApiError(e, StatusNotFound, 0)
       THEN End(loc, c, remote, RetDestroy)
       ELSE End(loc, c, remote, RetThrow(e))

\* const service = await createService(api, input).catch(...)
VpcServiceCreate ==
  /\ kind = "VpcService" /\ pc = "vpc_create"
  /\ \E a \in Answers :
       LET e == CreateAnswer(a, loc.name)
           c == Append(calls, Call("create", loc.name, loc.payload, e))
           rem == [remote EXCEPT ![loc.name] = VpcServiceStored(loc.payload)]
       IN
       IF e = NoErr
       THEN End(loc, c, rem, RetOutput(formatOutput(VpcServiceResponse(rem, loc.name))))
       ELSE IF VpcServiceShouldAdopt(e, loc.adopt)
       THEN Step("vpc_adopt_list", [loc EXCEPT !.err = e], c, remote, ret)
       ELSE End([loc EXCEPT !.err = e], c, remote, RetThrow(e))

\* const services = await listServices(api); services.find(by name)
VpcServiceAdoptList ==
  /\ kind = "VpcService" /\ pc = "vpc_adopt_list"
  /\ \E a \in Answers :
       LET c == Append(calls, Call("list", loc.name, Nil, a)) IN
       IF a # NoErr
       THEN End(loc, c, remote, RetThrow(a))
       ELSE IF remote[loc.name].exists
       THEN Step("vpc_adopt_update",
                 [loc EXCEPT !.inst = VpcServiceResponse(remote, loc.name)], c, remote, ret)
       ELSE End(loc, c, remote, RetThrow(loc.err))

\* return await updateService(api, service.service_id, input)
VpcServiceAdoptUpdate ==
  /\ kind = "VpcService" /\ pc = "vpc_adopt_update"
  /\ \E a \in Answers :
       LET n == NameOf(loc.inst.service_id)
           e == LookupAnswer(a, n)
           c == Append(calls, Call("update", loc.inst.service_id, loc.payload, e))
           rem == [remote EXCEPT ![n] = VpcServiceStored(loc.payload)]
       IN
       IF e = NoErr
       THEN End(loc, c, rem, RetOutput(formatOutput(VpcServiceResponse(rem, n))))
       ELSE End(loc, c, remote, RetThrow(e))

\* case "update": updateService(api, this.output.serviceId, input)
VpcServiceUpdate ==
  /\ kind = "VpcService" /\ pc = "vpc_update"
  /\ \E a \in Answers :
       LET n == NameOf(output.serviceId)
           e == LookupAnswer(a, n)
           c == Append(calls, Call("update", output.serviceId, loc.payload, e))
           rem == [remote EXCEPT ![n] = VpcServiceStored(loc.payload)]
       IN
       IF e = NoErr
       THEN End(loc, c, rem, RetOutput(formatOutput(VpcServiceResponse(rem, n))))
       ELSE End(loc, c, remote, RetThrow(e))

VpcServiceHandler ==
  \/ VpcServiceStart
  \/ VpcServiceDelete
  \/ VpcServiceCreate
  \/ VpcServiceAdoptList
  \/ VpcServiceAdoptUpdate
  \/ VpcServiceUpdate

----------------------------------------------------------------------------
(* D1Database *)

\* p.f, undefined when the declaration has no such property
Prop(p, f) == IF f \in DOMAIN p THEN p[f] ELSE "unset"

\* a handler that forgets the name of the prior output
D1DeclaredOrPhysicalName(p, o) == IF p.name # "unset" THEN p.name ELSE createPhysicalName

\* props.name ?? this.output?.name ?? this.scope.createPhysicalName(id)
D1DatabaseName(p, o) ==
  IF p.name # "unset" THEN p.name
  ELSE IF "name" \in DOMAIN o THEN o.name
  ELSE createPhysicalName

\* this.phase === "update" && this.output?.name !== databaseName
D1ShouldReplace(ph, o, databaseName) ==
  ph = "update" /\ ("name" \notin DOMAIN o \/ o.name # databaseName)

\* a handler that never runs locally
D1NeverLocal(p, s) == FALSE

\* const local = this.scope.local && !props.dev?.remote
D1Local(p, s) == s.local /\ ~Truthy(Prop(p, "devRemote"))

\* const dev = { id: output?.dev?.id ?? output?.id ?? databaseName, remote: ... }
D1Dev(p, o, databaseName) ==
  [id |-> IF "dev" \in DOMAIN o THEN o.dev.id
          ELSE IF "id" \in DOMAIN o THEN o.id
          ELSE databaseName,
   remote |-> Truthy(Prop(p, "devRemote"))]

\* the output object of the handler for the database id
D1Output(id, databaseName, p, o) ==
  [type |-> "d1", id |-> id, name |-> databaseName,
   readReplication |-> Prop(p, "readReplication"),
   primaryLocationHint |-> Prop(p, "primaryLocationHint"),
   dev |-> D1Dev(p, o, databaseName), jurisdiction |-> "default"]

\* the output returned in local mode: id: this.output?.id ?? ""
D1LocalOutput(databaseName, p, o) ==
  D1Output(IF "id" \in DOMAIN o THEN o.id ELSE "", databaseName, p, o)

\* props.delete !== false && this.output?.id
D1ShouldDelete(p, o) == p.delete # "false" /\ HasId(o)

\* this.phase === "create" || !this.output?.id
D1CreateFlow(ph, o) == ph = "create" \/ ~HasId(o)

\* a handler that does not compare the location hint
D1HintIgnored(p, o) == FALSE

\* props.primaryLocationHint && props.primaryLocationHint !== this.output?.primaryLocationHint
D1HintChanged(p, o) ==
  /\ p.primaryLocationHint # "unset"
  /\ p.primaryLocationHint # o.primaryLocationHint

\* adopt && error instanceof CloudflareApiError && error.message.includes("already exists")
D1ShouldAdopt(adopt, error) ==
  Truthy(adopt) /\ error.api /\ error.msg = "already exists"

\* an update that switches read replication off whatever is declared
D1UpdateModeDisabled(p) == "disabled"

\* props.readReplication?.mode ?? "disabled"
D1UpdateMode(p) == Coalesce(p.readReplication, "disabled")

\* D1ResponseObject of the database named n
D1Response(rem, n) == [uuid |-> Uuid(n), name |-> n, read_replication |-> rem[n].mode]

\* what the handler does on an error caught around createDatabase
D1Catch(l, c, e) ==
  IF D1ShouldAdopt(l.adopt, e)
  THEN Step("d1_adopt_list", [l EXCEPT !.err = e], c, remote, ret)
  ELSE End([l EXCEPT !.err = e], c, remote, RetThrow(e))

\* entry of the handler, up to the first provider call
D1Start ==
  /\ kind = "D1Database" /\ pc = "start"
  /\ LET databaseName == D1DatabaseName(props, output)
         l == [loc EXCEPT !.name = databaseName]
     IN
     IF D1ShouldReplace(phase, output, databaseName)
     THEN End(l, calls, remote, RetReplace(FALSE))
     ELSE IF D1Local(props, scope)
     THEN End(l, calls, remote, RetOutput(D1LocalOutput(databaseName, props, output)))
     ELSE IF phase = "delete"
     THEN IF D1ShouldDelete(props, output)
          THEN Step("d1_delete", l, calls, remote, ret)
          ELSE End(l, calls, remote, RetDestroy)
     ELSE IF D1CreateFlow(phase, output)
     THEN Step("d1_create", [l EXCEPT !.adopt = EffectiveAdopt(props, scope)],
               calls, remote, ret)
     ELSE IF D1HintChanged(props, output)
     THEN End(l, calls, remote, RetThrow(HandlerErr("cannot update primaryLocationHint")))
     ELSE Step("d1_update", l, calls, remote, ret)

\* await deleteDatabase(api, this.output.id); return this.destroy()
D1Delete ==
  /\ kind = "D1Database" /\ pc = "d1_delete"
  /\ \E a \in Answers :
       LET e == LookupAnswer(a, NameOf(output.id))
           c == Append(calls, Call("delete", output.id, Nil, e))
       IN
       IF e = NoErr
       THEN End(loc, c, [remote EXCEPT ![NameOf(output.id)] = Absent], RetDestroy)
       ELSE IF e.api /\ e.status = StatusNotFound
       THEN End(loc, c, remote, RetDestroy)
       ELSE End(loc, c, remote, RetThrow(e))

\* createDatabase: the POST that creates the database
D1Create ==
  /\ kind = "D1Database" /\ pc = "d1_create"
  /\ \E a \in Answers :
       LET e == CreateAnswer(a, loc.name)
           body == [name |-> loc.name, primary_location_hint |-> props.primaryLocationHint]
           c == Append(calls, Call("create", loc.name, body, e))
           rem == [remote EXCEPT ![loc.name] = [exists |-> TRUE, mode |-> "disabled"]]
           l == [loc EXCEPT !.inst = D1Response(rem, loc.name)]
       IN
       IF e # NoErr
       THEN D1Catch(loc, c, e)
       ELSE IF props.readReplication # "unset"
       THEN Step("d1_create_replication", l, c, rem, ret)
       ELSE End(l, c, rem, RetOutput(D1Output(l.inst.uuid, loc.name, props, output)))

\* createDatabase: updateReadReplicationMode when a mode is declared
D1CreateReplication ==
  /\ kind = "D1Database" /\ pc = "d1_create_replication"
  /\ \E a \in Answers :
       LET e == LookupAnswer(a, loc.name)
           c == Append(calls, Call("update", loc.inst.uuid, props.readReplication, e))
           rem == [remote EXCEPT ![loc.name].mode = props.readReplication]
           l == [loc EXCEPT !.inst = D1Response(rem, loc.name)]
       IN
       IF e # NoErr
       THEN D1Catch(loc, c, e)
       ELSE End(l, c, rem, RetOutput(D1Output(l.inst.uuid, loc.name, props, output)))

\* const databases = await listDatabases(api, databaseName); find by name
D1AdoptList ==
  /\ kind = "D1Database" /\ pc = "d1_adopt_list"
  /\ \E a \in Answers :
       LET c == Append(calls, Call("list", loc.name, Nil, a)) IN
       IF a # NoErr
       THEN End(loc, c, remote, RetThrow(a))
       ELSE IF ~remote[loc.name].exists
       THEN End(loc, c, remote, RetThrow(HandlerErr("failed to find existing database")))
       ELSE Step("d1_adopt_get", [loc EXCEPT !.inst = D1Response(remote, loc.name)],
                 c, remote, ret)

\* dbData = await getDatabase(api, existingDb.uuid)
D1AdoptGet ==
  /\ kind = "D1Database" /\ pc = "d1_adopt_get"
  /\ \E a \in Answers :
       LET e == LookupAnswer(a, loc.name)
           c == Append(calls, Call("get", loc.inst.uuid, Nil, e))
       IN
       IF e # NoErr
       THEN End(loc, c, remote, RetThrow(e))
       ELSE IF props.readReplication # "unset"
       THEN Step("d1_adopt_update", loc, c, remote, ret)
       ELSE End(loc, c, remote, RetOutput(D1Output(loc.inst.uuid, loc.name, props, output)))

\* if (props.readReplication) dbData = await updateReadReplicationMode(...)
D1AdoptUpdate ==
  /\ kind = "D1Database" /\ pc = "d1_adopt_update"
  /\ \E a \in Answers :
       LET e == LookupAnswer(a, loc.name)
           c == Append(calls, Call("update", loc.inst.uuid, props.readReplication, e))
           rem == [remote EXCEPT ![loc.name].mode = props.readReplication]
           l == [loc EXCEPT !.inst = D1Response(rem, loc.name)]
       IN
       IF e # NoErr
       THEN End(loc, c, remote, RetThrow(e))
       ELSE End(l, c, rem, RetOutput(D1Output(l.inst.uuid, loc.name, props, output)))

\* dbData = await updateReadReplicationMode(api, this.output.id, mode ?? "disabled")
D1Update ==
  /\ kind = "D1Database" /\ pc = "d1_update"
  /\ \E a \in Answers :
       LET n == NameOf(output.id)
           m == D1UpdateMode(props)
           e == LookupAnswer(a, n)
           c == Append(calls, Call("update", output.id, m, e))
           rem == [remote EXCEPT ![n].mode = m]
           l == [loc EXCEPT !.inst = D1Response(rem, n)]
       IN
       IF e # NoErr
       THEN End(loc, c, remote, RetThrow(e))
       ELSE End(l, c, rem, RetOutput(D1Output(l.inst.uuid, loc.name, props, output)))

D1DatabaseHandler ==
  \/ D1Start
  \/ D1Delete
  \/ D1Create
  \/ D1CreateReplication
  \/ D1AdoptList
  \/ D1AdoptGet
  \/ D1AdoptUpdate
  \/ D1Update

----------------------------------------------------------------------------
(* DefaultRole *)

\* typeof props.branch === "string" ? props.branch : (props.branch?.name ?? "main")
DefaultRoleBranch(p) == Coalesce(p.branch, "main")

DefaultRoleTarget(p) == <<p.database, DefaultRoleBranch(p)>>

\* an update that compares the database alone
DefaultRoleDatabaseChanged(p, o) == p.database # o.database

\* database !== this.output.database || branch !== this.output.branch
DefaultRoleShouldReplace(p, o) ==
  p.database # o.database \/ DefaultRoleBranch(p) # o.branch

\* the role the provider answers a reset of target t with
DefaultRoleData(rem, t) ==
  [id |-> <<"role", t>>, username |-> "postgres", password |-> <<"password", t, rem[t].version>>]

\* the output of the create phase
DefaultRoleOutput(data, p) ==
  [id |-> data.id, username |-> data.username,
   password |-> Secret(data.password),
   connectionUrl |-> Secret(<<"postgresql", data.username, data.password, 5432>>),
   connectionUrlPooled |-> Secret(<<"postgresql", data.username, data.password, 6432>>),
   database |-> p.database, branch |-> DefaultRoleBranch(p)]

\* the provider resets the default role of target t
ResetRole(rem, t) ==
  [rem EXCEPT ![t] = [exists |-> TRUE, version |-> rem[t].version + 1]]

\* switch (this.phase)
DefaultRoleStart ==
  /\ kind = "DefaultRole" /\ pc = "start"
  /\ IF phase = "create"
     THEN IF ~Truthy(props.forceReset)
          THEN Step("role_check", loc, calls, remote, ret)
          ELSE Step("role_wait", loc, calls, remote, ret)
     ELSE IF phase = "update"
     THEN IF DefaultRoleShouldReplace(props, output)
          THEN End(loc, calls, remote, RetReplace(FALSE))
          ELSE End(loc, calls, remote, RetOutput(output))
     ELSE Step("role_delete", loc, calls, remote, ret)

\* a handler that asks for the default role and goes on whatever the answer
DefaultRoleCheckIgnored ==
  /\ kind = "DefaultRole" /\ pc = "role_check"
  /\ \E a \in Answers :
       LET t == DefaultRoleTarget(props)
           e == IF a # NoErr THEN a ELSE IF remote[t].exists THEN NoErr ELSE NotFoundErr
       IN Step("role_wait", loc, Append(calls, Call("get", t, Nil, e)), remote, ret)

\* const existing = await api.getDefaultRole({ ..., throwOnError: false })
DefaultRoleCheck ==
  /\ kind = "DefaultRole" /\ pc = "role_check"
  /\ \E a \in Answers :
       LET t == DefaultRoleTarget(props)
           e == IF a # NoErr THEN a ELSE IF remote[t].exists THEN NoErr ELSE NotFoundErr
           c == Append(calls, Call("get", t, Nil, e))
       IN
       IF e = NoErr
       THEN End(loc, c, remote, RetThrow(HandlerErr("default role already exists")))
       ELSE IF e.status # StatusNotFound
       THEN End(loc, c, remote, RetThrow(HandlerErr("failed to check for default role")))
       ELSE Step("role_wait", loc, c, remote, ret)

\* await waitForBranchReady(api, organization, database, branch)
DefaultRoleWait ==
  /\ kind = "DefaultRole" /\ pc = "role_wait"
  /\ \E a \in Answers :
       LET c == Append(calls, Call("waitForBranchReady", DefaultRoleTarget(props), Nil, a)) IN
       IF a = NoErr
       THEN Step("role_reset", loc, c, remote, ret)
       ELSE End(loc, c, remote, RetThrow(a))

\* const { data } = await api.resetDefaultRole(...); return {...}
DefaultRoleReset ==
  /\ kind = "DefaultRole" /\ pc = "role_reset"
  /\ remote[DefaultRoleTarget(props)].version < MaxResets
  /\ \E a \in Answers :
       LET t == DefaultRoleTarget(props)
           c == Append(calls, Call("reset", t, Nil, a))
           rem == ResetRole(remote, t)
       IN
       IF a = NoErr
       THEN End(loc, c, rem, RetOutput(DefaultRoleOutput(DefaultRoleData(rem, t), props)))
       ELSE End(loc, c, remote, RetThrow(a))

\* case "delete": await api.resetDefaultRole(...); return this.destroy()
DefaultRoleDelete ==
  /\ kind = "DefaultRole" /\ pc = "role_delete"
  /\ remote[DefaultRoleTarget(props)].version < MaxResets
  /\ \E a \in Answers :
       LET t == DefaultRoleTarget(props)
           c == Append(calls, Call("reset", t, Nil, a))
       IN
       IF a = NoErr
       THEN End(loc, c, ResetRole(remote, t), RetDestroy)
       ELSE End(loc, c, remote, RetThrow(a))

DefaultRoleHandler ==
  \/ DefaultRoleStart
  \/ DefaultRoleCheck
  \/ DefaultRoleWait
  \/ DefaultRoleReset
  \/ DefaultRoleDelete

----------------------------------------------------------------------------
(* The lifecycle engine *)

\* the declared properties a handler reads in its delete phase
DeletePhaseProps(k) ==
  CASE k = "AiSearch" -> {"delete"}
    [] k = "AiSearchToken" -> {"delete"}
    [] k = "D1Database" -> {"name", "delete", "devRemote"}
    [] k = "DefaultRole" -> {"database", "branch", "delete"}
    [] k = "VpcService" -> {"delete"}

\* the properties the state store keeps with an output, cut down to the
\* ones the delete phase reads
StoredProps(p) == [f \in DOMAIN p \cap DeletePhaseProps(kind) |-> p[f]]

\* the output as the state store writes it to its file: a Secret is written
\* with a marker that tells it from a plain string.  `store` holds the
\* record before it is written; a handler is invoked with what is read back
Serialize(o) ==
  [k \in DOMAIN o |->
     IF k \in {"cfApiKey", "password", "connectionUrl", "connectionUrlPooled"}
     THEN IF o[k].secret
          THEN [marker |-> "@secret", data |-> o[k].unencrypted]
          ELSE [marker |-> "", data |-> o[k].unencrypted]
     ELSE o[k]]

\* the output as the state store reloads it: the marker makes a Secret again
Deserialize(o) ==
  [k \in DOMAIN o |->
     IF k \in {"cfApiKey", "password", "connectionUrl", "connectionUrlPooled"}
     THEN [secret |-> o[k].marker = "@secret", unencrypted |-> o[k].data]
     ELSE o[k]]

Idle ==
  /\ pc' = "idle"
  /\ mode' = "idle"
  /\ phase' = "none"
  /\ props' = Nil
  /\ output' = Nil
  /\ loc' = NoLoc
  /\ calls' = <<>>
  /\ ret' = NoRet

\* the engine invokes the handler
Invoke(m, ph, p, o) ==
  /\ mode' = m
  /\ phase' = ph
  /\ props' = p
  /\ output' = o
  /\ pc' = "start"
  /\ loc' = NoLoc
  /\ calls' = <<>>
  /\ ret' = NoRet

\* the declarations a script applies: where the account holds service
\* tokens or the handler made its own, the script goes on leaving the token
\* to the handler
Declarable(p) ==
  (kind = "AiSearch" /\ (nested # {} \/ account.service # {})) => AiSearchAutoToken(p)

\* apply(identity, declaredProps): create without a prior record, else update
Apply ==
  /\ pc = "idle" /\ pending = <<>>
  /\ \E p \in {d \in PropsOf(kind) : Declarable(d)} :
       Invoke("apply", IF store.has THEN "update" ELSE "create", p, Deserialize(Serialize(store.output)))
  /\ UNCHANGED <<kind, scope, store, pending, remote, orphans, applied, nested, account,
                 runVars, eval, job>>

\* the scope is destroyed, or the resource is no longer declared
Destroy ==
  /\ pc = "idle" /\ pending = <<>> /\ store.has
  /\ Invoke("destroy", "delete", store.props, Deserialize(Serialize(store.output)))
  /\ UNCHANGED <<kind, scope, store, pending, remote, orphans, applied, nested, account,
                 runVars, eval, job>>

\* replace(): the handler is run again as a create, the old output is kept
Replace ==
  /\ pc = "done" /\ ret.tag = "replace"
  /\ Invoke("replace", "create", props, Nil)
  /\ UNCHANGED <<kind, scope, store, pending, remote, orphans, applied, nested, account,
                 runVars, eval, job>>

\* the handler returned an output: it is persisted; after a replacement the
\* old output is scheduled for deletion.  The scope of the resource is
\* finalized: the child resources it holds a record of and the handler did
\* not declare in this run go through their delete phase
Persist ==
  /\ pc = "done" /\ ret.tag = "output" /\ phase # "delete"
  /\ store' = [has |-> TRUE, props |-> StoredProps(props), output |-> ret.val]
  /\ pending' = IF mode = "replace"
                THEN Append(pending, [props |-> store.props, output |-> store.output])
                ELSE pending
  /\ orphans' = {}
  /\ applied' = props
  /\ nested' = nested \cap loc.seen
  /\ account' = Cascade(nested \ loc.seen, ChildProps)
  /\ Idle
  /\ UNCHANGED <<kind, scope, remote, runVars, eval, job>>

\* the delete phase of a replaced output, once its replacement is persisted
Sweep ==
  /\ pc = "idle" /\ pending # <<>>
  /\ Invoke("sweep", "delete", Head(pending).props, Deserialize(Serialize(Head(pending).output)))
  /\ UNCHANGED <<kind, scope, store, pending, remote, orphans, applied, nested, account,
                 runVars, eval, job>>

\* the delete phase ended without an error: the record is removed, and the
\* child resources are destroyed with it
Remove ==
  /\ pc = "done" /\ phase = "delete" /\ ret.tag \in {"destroy", "output"}
  /\ IF mode = "sweep"
     THEN pending' = Tail(pending) /\ store' = store
     ELSE pending' = pending /\ store' = NoRecord
  /\ applied' = Nil
  /\ nested' = (IF mode = "sweep" THEN nested ELSE {})
  /\ account' = (IF mode = "sweep" THEN account ELSE Cascade(nested, props))
  /\ Idle
  /\ UNCHANGED <<kind, scope, remote, orphans, runVars, eval, job>>

\* the objects the ended create phase of an apply created with the
\* provider, with the declaration it ran for
Orphaned ==
  {[name |-> n, props |-> props] :
     n \in {m \in DOMAIN remote :
              /\ mode = "apply" /\ phase = "create"
              /\ remote[m].exists
              /\ \E i \in CallsOf("create") : calls[i].err = NoErr /\ calls[i].target = m}}

\* an engine that schedules the old output for deletion although the
\* replacement's create threw
FailSchedulesOld ==
  /\ pc = "done" /\ ret.tag = "throw"
  /\ pending' = IF mode = "replace"
                THEN Append(pending, [props |-> store.props, output |-> store.output])
                ELSE pending
  /\ orphans' = orphans \cup Orphaned
  /\ applied' = Nil
  /\ Idle
  /\ UNCHANGED <<kind, scope, store, remote, nested, account, runVars, eval, job>>

\* the handler threw: nothing is persisted
Fail ==
  /\ pc = "done" /\ ret.tag = "throw"
  /\ orphans' = orphans \cup Orphaned
  /\ applied' = Nil
  /\ Idle
  /\ UNCHANGED <<kind, scope, store, pending, remote, nested, account, runVars, eval, job>>

----------------------------------------------------------------------------
(* Initial states: nothing applied yet; the provider may already hold an   *)
(* object of the name, and the store may hold an AiSearch record written   *)
(* by the development version of the resource.                             *)

\* scope.local is read by D1Database only
Scopes(k) ==
  [adopt : {"true", "false"}, local : IF k = "D1Database" THEN BOOLEAN ELSE {FALSE}]

AiSearchForeign ==
  [exists |-> TRUE, type |-> "r2", source |-> "s1", max_num_results |-> 10]

AiSearchLegacyProps ==
  [name |-> "a", adopt |-> "unset", delete |-> "unset",
   source |-> [type |-> "r2", bucket |-> "s1"], maxNumResults |-> 10,
   indexOnCreate |-> "unset", tokenId |-> ValidTokenId, token |-> NoToken]

AiSearchLegacyOutputs ==
  {[id |-> "a", name |-> "a", sourceType |-> "r2", sourceBucket |-> "s1",
    maxNumResults |-> 10, vectorizeName |-> VectorizeName("a")],
   [id |-> "a", name |-> "a", sourceType |-> "web-crawler", sourceDomain |-> "s1",
    maxNumResults |-> 10, vectorizeName |-> VectorizeName("a")]}

InitWorlds(k) ==
  {[store |-> NoRecord, remote |-> IF k = "DefaultRole" THEN NoRoles ELSE NoRemote]}
  \cup
  (CASE k = "AiSearch" ->
          {[store |-> NoRecord, remote |-> [NoRemote EXCEPT !["a"] = AiSearchForeign]]}
          \cup
          {[store |-> [has |-> TRUE, props |-> StoredProps(AiSearchLegacyProps), output |-> o],
            remote |-> [NoRemote EXCEPT !["a"] =
                          [exists |-> TRUE, type |-> o.sourceType, source |-> "s1",
                           max_num_results |-> 10]]] : o \in AiSearchLegacyOutputs}
     [] k = "AiSearchToken" ->
          {[store |-> NoRecord,
            remote |-> [NoRemote EXCEPT !["a"] =
                          [exists |-> TRUE, cf_api_id |-> "foreign-token-id"]]]}
     [] k = "VpcService" ->
          {[store |-> NoRecord,
            remote |-> [NoRemote EXCEPT !["a"] =
                          VpcServiceStored(
                            [name |-> "a", type |-> "http", http_port |-> 80,
                             host |-> [ipv4 |-> "10.0.0.1",
                                       network |-> [tunnel_id |-> "t0"]]])]]}
     [] k = "D1Database" ->
          {[store |-> NoRecord,
            remote |-> [NoRemote EXCEPT !["a"] = [exists |-> TRUE, mode |-> "disabled"]]]}
     [] k = "DefaultRole" ->
          {[store |-> NoRecord,
            remote |-> [NoRoles EXCEPT ![<<"a", "main">>] = [exists |-> TRUE, version |-> 1]]]}
     [] OTHER -> {})

Init ==
  /\ kind \in Kinds
  /\ scope \in Scopes(kind)
  /\ \E w \in InitWorlds(kind) : store = w.store /\ remote = w.remote
  /\ pending = <<>>
  /\ mode = "idle"
  /\ phase = "none"
  /\ props = Nil
  /\ output = Nil
  /\ pc = "idle"
  /\ loc = NoLoc
  /\ calls = <<>>
  /\ ret = NoRet
  /\ orphans = {}
  /\ applied = Nil
  /\ nested = {}
  \* the account holds no token, or, for an AiSearch, the service token of
  \* somebody else
  /\ account \in {[service |-> {}, api |-> {}]}
                   \cup (IF kind = "AiSearch"
                         THEN {[service |-> {"x"}, api |-> {"x"}]} ELSE {})
  /\ account.service # {} => (store = NoRecord /\ remote = NoRemote)
  /\ stage = "ended"
  /\ script = {}
  /\ records = {}
  /\ seen = {}
  /\ running = {}
  /\ attempted = {}
  /\ failed = {}
  /\ raised = "none"
  /\ eval = Nil
  /\ job = NoJob

Next ==
  \/ Apply
  \/ Destroy
  \/ Replace
  \/ Persist
  \/ Sweep
  \/ Remove
  \/ Fail
  \/ AiSearchHandler
  \/ AiSearchTokenHandler
  \/ VpcServiceHandler
  \/ D1DatabaseHandler
  \/ DefaultRoleHandler

Spec == Init /\ [][Next]_vars

----------------------------------------------------------------------------
(* A run of a script that declares several resources: the handlers are   *)
(* taken as a whole, they begin and then return or throw.                *)

\* the resources of the example script and the resources whose output each
\* one's properties reference
Deps ==
  [bucket |-> {}, rag |-> {"bucket"}, queue |-> {}, worker |-> {"bucket", "queue"}]

\* the records whose resource references the output of r
Dependents(r) == {d \in DOMAIN Deps : r \in Deps[d]}

\* a script declares a resource after the resources it references
Scripts == {s \in SUBSET DOMAIN Deps : \A r \in s : Deps[r] \subseteq s}

\* a declarative pass begins: the seenInCurrentRun flags are reset
RunStart ==
  /\ stage = "ended"
  /\ script' \in Scripts
  /\ stage' = "apply"
  /\ seen' = {} /\ running' = {} /\ attempted' = {} /\ failed' = {}
  /\ raised' = "none"
  /\ UNCHANGED <<records, handlerVars, eval, job>>

\* a script that calls r with outputs that are not there yet
HandlerBeginUnordered(r) ==
  /\ stage = "apply" /\ raised = "none"
  /\ r \in script \ (seen \cup running)
  /\ running' = running \cup {r}
  /\ UNCHANGED <<stage, script, records, seen, attempted, failed, raised, handlerVars, eval, job>>

\* the script reaches `await Resource(r, props)`: the outputs the properties
\* reference are values of calls that have returned
HandlerBegin(r) ==
  /\ stage = "apply" /\ raised = "none"
  /\ r \in script \ (seen \cup running)
  /\ Deps[r] \subseteq seen
  /\ running' = running \cup {r}
  /\ UNCHANGED <<stage, script, records, seen, attempted, failed, raised, handlerVars, eval, job>>

\* the handler of r returns its output, which is recorded, or throws, which
\* aborts the run
HandlerEnd(r) ==
  /\ stage = "apply" /\ r \in running
  /\ running' = running \ {r}
  /\ \/ /\ records' = records \cup {r}
        /\ seen' = seen \cup {r}
        /\ raised' = raised
     \/ /\ raised' = "apply"
        /\ UNCHANGED <<records, seen>>
  /\ UNCHANGED <<stage, script, attempted, failed, handlerVars, eval, job>>

\* app.finalize() at the end of the script, or the end of an aborted run
Finalize ==
  /\ stage = "apply" /\ running = {}
  /\ \/ raised = "none" /\ seen = script /\ stage' = "sweep"
     \/ raised = "apply" /\ stage' = "ended"
  /\ UNCHANGED <<script, records, seen, running, attempted, failed, raised, handlerVars, eval, job>>

\* the sweep invokes the delete phase of an unseen record once the records
\* that depend on it are removed
DeleteBegin(r) ==
  /\ stage = "sweep" /\ running = {}
  /\ r \in records \ (seen \cup attempted)
  /\ Dependents(r) \cap records = {}
  /\ running' = {r}
  /\ attempted' = attempted \cup {r}
  /\ UNCHANGED <<stage, script, records, seen, failed, raised, handlerVars, eval, job>>

\* the delete phase of r returns the sentinel and the record is removed, or
\* it throws and the record stays
DeleteEnd(r) ==
  /\ stage = "sweep" /\ r \in running
  /\ running' = {}
  /\ \/ records' = records \ {r} /\ failed' = failed
     \/ records' = records /\ failed' = failed \cup {r}
  /\ UNCHANGED <<stage, script, seen, attempted, raised, handlerVars, eval, job>>

\* a sweep that gives up at the first failure
SweepStopsOnFailure ==
  /\ stage = "sweep" /\ running = {}
  /\ \/ failed # {}
     \/ \A r \in records \ (seen \cup attempted) : Dependents(r) \cap records # {}
  /\ stage' = "ended"
  /\ raised' = IF failed = {} THEN "none" ELSE "sweep"
  /\ UNCHANGED <<script, records, seen, running, attempted, failed, handlerVars, eval, job>>

\* no delete is left to begin: the failures are raised as one error
SweepEnd ==
  /\ stage = "sweep" /\ running = {}
  /\ \A r \in records \ (seen \cup attempted) : Dependents(r) \cap records # {}
  /\ stage' = "ended"
  /\ raised' = IF failed = {} THEN "none" ELSE "sweep"
  /\ UNCHANGED <<script, records, seen, running, attempted, failed, handlerVars, eval, job>>

InitRun ==
  /\ Init
  /\ kind = "AiSearch"
  /\ scope = [adopt |-> "false", local |-> FALSE]
  /\ store = NoRecord
  /\ remote = NoRemote
  /\ account.service = {}

NextRun ==
  \/ RunStart
  \/ \E r \in DOMAIN Deps : HandlerBegin(r)
  \/ \E r \in DOMAIN Deps : HandlerEnd(r)
  \/ Finalize
  \/ \E r \in DOMAIN Deps : DeleteBegin(r)
  \/ \E r \in DOMAIN Deps : DeleteEnd(r)
  \/ SweepEnd

SpecRun == InitRun /\ [][NextRun]_vars

----------------------------------------------------------------------------
(* Functions that keep no state: AiCrawler and snakeToCamelObjectDeep.     *)
(* One step calls the function on one argument; `eval` holds the call and  *)
(* its outcome.                                                            *)

Returned(v) == [tag |-> "return", value |-> v]
Thrown(m) == [tag |-> "throw", msg |-> m]

\* at most this many URLs are given to AiCrawler
MaxUrls == 2

\* URLs given to AiCrawler: with https, with http and without a protocol; a
\* bare host, the root path, paths of one segment, a trailing slash, an empty
\* segment, and a query that holds a URL
CrawlerUrls ==
  {"s1", "https://s1", "http://s1", "https://s1/", "s1/blog", "https://s1/blog",
   "https://s1/news/", "https://s2/blog", "https://s1//",
   "s1/r?u=x://y", "https://s1/r?u=x://y"}

\* parseUrl(url): the protocol is added when the string holds no "://", then
\* new URL(normalized) is read for hostname and pathname.  new URL is the
\* platform's parser, here for strings scheme://host/path?query#fragment
\* with a lowercase host and neither port nor credentials: it throws without
\* a scheme before the first colon or without a host; the pathname is "/"
\* when the string has none
parseUrl(url) ==
  LET normalized == IF Includes(url, "://") THEN url ELSE "https://" \o url
      \* the first position of one of the characters cs in str, else past its end
      First(str, cs) ==
        LET hits == {i \in 1..Len(str) : SubSeq(str, i, i) \in cs} IN
        IF hits = {} THEN Len(str) + 1 ELSE CHOOSE i \in hits : \A j \in hits : i <= j
      SchemeChars ==
        {"a", "b", "c", "d", "e", "f", "g", "h", "i", "j", "k", "l", "m", "n", "o", "p",
         "q", "r", "s", "t", "u", "v", "w", "x", "y", "z",
         "0", "1", "2", "3", "4", "5", "6", "7", "8", "9", "+", "-", "."}
      colon == First(normalized, {":"})
      hasScheme ==
        /\ 1 < colon /\ colon <= Len(normalized)
        /\ \A i \in 1..(colon - 1) : SubSeq(normalized, i, i) \in SchemeChars
        /\ SubSeq(normalized, colon + 1, colon + 2) = "//"
      rest == SubSeq(normalized, colon + 3, Len(normalized))
      hostEnd == First(rest, {"/", "?", "#"})
      tail == SubSeq(rest, hostEnd, Len(rest))
      pathEnd == First(tail, {"?", "#"})
  IN
  IF ~hasScheme \/ hostEnd = 1
  THEN [ok |-> FALSE, domain |-> "", path |-> ""]
  ELSE [ok |-> TRUE,
        domain |-> SubSeq(rest, 1, hostEnd - 1),
        path |-> IF pathEnd = 1 THEN "/" ELSE SubSeq(tail, 1, pathEnd - 1)]

\* a pattern that is the path as it is
pathAsPattern(path) == path

\* pathToGlobPattern(path)
pathToGlobPattern(path) ==
  LET cleanPath == IF Len(path) > 0 /\ SubSeq(path, 1, 1) = "/"
                   THEN SubSeq(path, 2, Len(path)) ELSE path
  IN IF cleanPath = "" \/ cleanPath = "/" THEN "**" ELSE "**/" \o cleanPath \o "**"

\* AiCrawler(urls); includePaths: undefined is a source without the field
AiCrawler(urls) ==
  IF Len(urls) = 0 THEN Thrown("AiCrawler requires at least one URL")
  ELSE
    LET parsed == [i \in 1..Len(urls) |-> parseUrl(urls[i])]
        domains == {parsed[i].domain : i \in 1..Len(urls)}
        paths == SelectSeq([i \in 1..Len(urls) |-> parsed[i].path],
                           LAMBDA q : q # "" /\ q # "/")
    IN
    IF \E i \in 1..Len(urls) : ~parsed[i].ok THEN Thrown("Invalid URL")
    ELSE IF Cardinality(domains) > 1 THEN Thrown("All URLs must be from the same domain")
    ELSE IF Len(paths) > 0
    THEN Returned([type |-> "web-crawler", domain |-> parsed[1].domain,
                   includePaths |-> [i \in 1..Len(paths) |-> pathToGlobPattern(paths[i])]])
    ELSE Returned([type |-> "web-crawler", domain |-> parsed[1].domain])

\* a script calls AiCrawler(urls)
EvalAiCrawler ==
  /\ \E n \in 0..MaxUrls : \E urls \in [1..n -> CrawlerUrls] :
       eval' = [fn |-> "AiCrawler", arg |-> urls, val |-> AiCrawler(urls)]
  /\ UNCHANGED <<handlerVars, runVars, job>>

\* a JavaScript value: its kind t (typeof, with null, array, Date and RegExp
\* told apart) and what it holds, v; an object holds its entries in order
Json(t, v) == [t |-> t, v |-> v]

\* values that are not traversed
JsonLeaves ==
  {Json("string", "snake_case"), Json("number", 1), Json("boolean", TRUE),
   Json("null", 0), Json("undefined", 0), Json("date", 0), Json("regexp", "a_b")}

\* keys: snake_case, several underscores, two underscores in a row, a
\* leading and a trailing underscore, an underscore before a digit and before
\* a capital, camelCase, one word
JsonKeys == {"foo_bar", "a_b_c", "a__b", "_a", "a_", "a_1", "a_B", "aB", "x"}

\* values are nested at most this deep
MaxDepth == 2

\* the values nested at most d deep: arrays of one and of two elements and
\* objects of one entry around the values nested less deep
RECURSIVE JsonValues(_)
JsonValues(d) ==
  IF d = 0 THEN JsonLeaves
  ELSE LET sub == JsonValues(d - 1) IN
       sub
       \cup {Json("array", <<x>>) : x \in sub}
       \cup {Json("array", <<x, Json("number", 1)>>) : x \in sub}
       \cup {Json("object", <<<<k, x>>>>) : k \in {"foo_bar", "a__b"}, x \in sub}

\* the arguments of snakeToCamelObjectDeep: nested values, the empty array
\* and object, every key on every leaf, and objects of two entries, one of
\* them with two keys that are renamed to the same key
JsonInputs ==
  JsonValues(MaxDepth)
  \cup {Json("array", <<>>), Json("object", <<>>),
        Json("object", <<<<"foo_bar", Json("number", 1)>>,
                         <<"a_b_c", Json("string", "snake_case")>>>>),
        Json("object", <<<<"a__b", Json("number", 1)>>,
                         <<"a_B", Json("string", "snake_case")>>>>)}
  \cup {Json("object", <<<<k, x>>>>) : k \in JsonKeys, x \in JsonLeaves}

\* a conversion that renames the keys of the outermost object only
snakeToCamelTopLevel(obj) ==
  IF obj.t # "object" THEN obj
  ELSE Json("object", [i \in 1..Len(obj.v) |->
                         <<snakeToCamelString(obj.v[i][1]), obj.v[i][2]>>])

\* snakeToCamelObjectDeep(obj); Object.fromEntries keeps, of entries with
\* the same key, the place of the first and the value of the last
RECURSIVE snakeToCamelObjectDeep(_)
snakeToCamelObjectDeep(obj) ==
  IF obj.t \in {"undefined", "null"} THEN obj
  ELSE IF obj.t \in {"string", "number", "boolean"} THEN obj
  ELSE IF obj.t \in {"regexp", "date"} THEN obj
  ELSE IF obj.t = "array"
  THEN Json("array", [i \in 1..Len(obj.v) |-> snakeToCamelObjectDeep(obj.v[i])])
  ELSE
    LET entries ==
          [i \in 1..Len(obj.v) |->
             <<snakeToCamelString(obj.v[i][1]),
               IF obj.v[i][2].t \in {"object", "date", "regexp"}
               THEN snakeToCamelObjectDeep(obj.v[i][2])
               ELSE IF obj.v[i][2].t = "array"
               THEN Json("array", [j \in 1..Len(obj.v[i][2].v) |->
                                     snakeToCamelObjectDeep(obj.v[i][2].v[j])])
               ELSE obj.v[i][2]>>]
        firsts == SelectSeq([i \in 1..Len(entries) |-> i],
                            LAMBDA i : \A j \in 1..(i - 1) : entries[j][1] # entries[i][1])
        last(k) == CHOOSE i \in 1..Len(entries) :
                     /\ entries[i][1] = k
                     /\ \A j \in (i + 1)..Len(entries) : entries[j][1] # k
    IN Json("object", [n \in 1..Len(firsts) |->
                         <<entries[firsts[n]][1], entries[last(entries[firsts[n]][1])][2]>>])

\* a caller converts a value
EvalSnakeToCamel ==
  /\ \E obj \in JsonInputs :
       eval' = [fn |-> "snakeToCamelObjectDeep", arg |-> obj,
                val |-> Returned(snakeToCamelObjectDeep(obj))]
  /\ UNCHANGED <<handlerVars, runVars, job>>

NextFn ==
  \/ EvalAiCrawler
  \/ EvalSnakeToCamel

SpecFn == InitRun /\ [][NextFn]_vars

----------------------------------------------------------------------------
(* runAiSearchJob: the function awaits the poll of the job while pollLogs  *)
(* runs beside it.  poll is not in the sources: it asks until the          *)
(* predicate holds or its attempts are used up, and then fails.            *)

\* poll gives up after this many requests
MaxAttempts == 3

\* pollLogs is followed for this many requests
MaxLogRequests == 4

\* the provider numbers the log items of a job up to this id
MaxLogId == 2

\* poll gave up
TimeoutErr == HandlerErr("timed out")

\* runAiSearchJob(api, aiSearchId, log) is called
runAiSearchJob ==
  /\ job.main = "none"
  /\ job' = [job EXCEPT !.main = "create"]
  /\ UNCHANGED <<handlerVars, runVars, eval>>

\* const job = await createAiSearchJob(api, aiSearchId); then the poll is
\* started and pollLogs() is called, which issues its first request
createAiSearchJob ==
  /\ job.main = "create"
  /\ \E a \in Answers :
       job' = IF a = NoErr
              THEN [job EXCEPT !.main = "await", !.poll = "polling",
                               !.logs = "request", !.requests = 1]
              ELSE [job EXCEPT !.main = "thrown", !.error = a]
  /\ UNCHANGED <<handlerVars, runVars, eval>>

\* one request of the poll, fn: () => getAiSearchJob(api, aiSearchId, job.id),
\* predicate: result.ended_at !== null.  When the poll resolves, the function
\* goes on at once: done = true and it returns; when the poll rejects, the
\* await throws and done stays false
getAiSearchJob ==
  /\ job.main = "await" /\ job.poll = "polling"
  /\ \E a \in Answers : \E ended \in BOOLEAN :
       job' = IF a = NoErr /\ ended
              THEN [job EXCEPT !.poll = "resolved", !.attempts = @ + 1,
                               !.done = TRUE, !.main = "returned"]
              ELSE IF job.attempts + 1 < MaxAttempts
              THEN [job EXCEPT !.attempts = @ + 1]
              ELSE [job EXCEPT !.poll = "rejected", !.attempts = @ + 1,
                               !.main = "thrown",
                               !.error = IF a = NoErr THEN TimeoutErr ELSE a]
  /\ UNCHANGED <<handlerVars, runVars, eval>>

\* const logs = await listAiSearchJobLogs(...): the new items are logged and
\* lastLogId moves on; if (!done) the loop sleeps, else it ends; an error of
\* the request ends the loop
listAiSearchJobLogs ==
  /\ job.logs = "request"
  /\ \E a \in Answers : \E newest \in job.lastLogId..MaxLogId :
       job' = IF a = NoErr
              THEN [job EXCEPT !.lastLogId = newest,
                               !.logs = IF job.done THEN "stopped" ELSE "sleep"]
              ELSE [job EXCEPT !.logs = "thrown"]
  /\ UNCHANGED <<handlerVars, runVars, eval>>

\* await sleep(3000); await pollLogs(): the next request is issued whatever
\* done is by now
pollLogs ==
  /\ job.logs = "sleep" /\ job.requests < MaxLogRequests
  /\ job' = [job EXCEPT !.logs = "request", !.requests = @ + 1,
                        !.after = IF job.poll \in {"resolved", "rejected"}
                                  THEN @ + 1 ELSE @]
  /\ UNCHANGED <<handlerVars, runVars, eval>>

NextJob ==
  \/ runAiSearchJob
  \/ createAiSearchJob
  \/ getAiSearchJob
  \/ listAiSearchJobLogs
  \/ pollLogs

SpecJob == InitRun /\ [][NextJob]_vars

----------------------------------------------------------------------------
(* The delete phase of AiSearch on its own: the handler is invoked with a  *)
(* Context of phase "delete" on any prior output, with an id or without.   *)

\* this.output in the delete phase: outputs of the current and of the
\* development version, an output with an empty id and one without an id
AiSearchPriorOutputs ==
  {[id |-> n, name |-> n, type |-> "r2", source |-> "s1", maxNumResults |-> 10,
    vectorizeName |-> VectorizeName(n)] : n \in Names \cup {""}}
  \cup AiSearchLegacyOutputs
  \cup {[name |-> "a", vectorizeName |-> VectorizeName("a")]}

InitDeletePhase ==
  /\ kind = "AiSearch"
  /\ scope \in Scopes(kind)
  /\ output \in AiSearchPriorOutputs
  /\ props \in [delete : Tri]
  /\ store = [has |-> TRUE, props |-> props, output |-> output]
  /\ remote \in [Names -> {Absent, AiSearchForeign}]
  /\ pending = <<>>
  /\ mode = "destroy"
  /\ phase = "delete"
  /\ pc = "start"
  /\ loc = NoLoc
  /\ calls = <<>>
  /\ ret = NoRet
  /\ orphans = {}
  /\ applied = Nil
  /\ nested = {}
  /\ account = [service |-> {}, api |-> {}]
  /\ stage = "ended"
  /\ script = {}
  /\ records = {}
  /\ seen = {}
  /\ running = {}
  /\ attempted = {}
  /\ failed = {}
  /\ raised = "none"
  /\ eval = Nil
  /\ job = NoJob

NextDeletePhase ==
  \/ AiSearchStart
  \/ AiSearchDeleteIndex
  \/ AiSearchDeleteInstance

SpecDeletePhase == InitDeletePhase /\ [][NextDeletePhase]_vars

----------------------------------------------------------------------------
(* Properties of the adoption protocol *)

\* the handlers that adopt a pre-existing remote object
AdoptingKinds == {"AiSearch", "AiSearchToken", "D1Database", "VpcService"}

\* the handler is running, or has ended, for an apply
Running == phase \in {"create", "update"}

\* the declared adopt flag when it is set, else the scope's
DeclaredAdopt == IF props.adopt # "unset" THEN props.adopt ELSE scope.adopt

\* the create calls of this invocation the provider refused for cause c
FailedCreates(c) == {i \in 1..Len(calls) : calls[i].op = "create" /\ calls[i].err.cause = c}

\* the source identity a declaration of an AiSearch normalizes to
DeclaredSource ==
  IF props.source.type = "r2" THEN props.source.bucket ELSE props.source.domain

\* C1: when AiSearch's create is refused because the instance exists (HTTP
\* 400 with code 7022) and the adopt flag in force is true, the handler looks
\* the instance up by its name, then issues one update with the declared
\* payload, issues no second create, and the output it returns is the
\* update's response.
C1_AiSearchAdoptsOnCollision ==
  (kind = "AiSearch" /\ Running /\ DeclaredAdopt = "true") =>
    \A i \in FailedCreates("exists") :
      LET declared == [calls[i].body EXCEPT !.id = props.name,
                                            !.source = DeclaredSource,
                                            !.type = props.source.type,
                                            !.max_num_results = props.maxNumResults]
      IN
      /\ calls[i].err.status = StatusBadRequest
      /\ calls[i].err.code = CodeAiSearchExists
      /\ Cardinality(CallsOf("create")) = 1
      /\ Cardinality(CallsOf("update")) <= 1
      /\ pc = "done" => Len(calls) > i
      /\ Len(calls) > i =>
           calls[i + 1].op = "get" /\ calls[i + 1].target = props.name
      /\ Len(calls) > i + 1 =>
           /\ calls[i + 1].err = NoErr
           /\ calls[i + 2].op = "update"
           /\ calls[i + 2].target = props.name
           /\ calls[i + 2].body = declared
      /\ (pc = "done" /\ ret.tag = "throw") => ret.err = calls[Len(calls)].err
      /\ (pc = "done" /\ ret.tag = "output") =>
           /\ Len(calls) > i + 1
           /\ calls[i + 2].err = NoErr
           /\ ret.val.id = props.name
           /\ ret.val.name = props.name
           /\ ret.val.type = declared.type
           /\ ret.val.source = declared.source
           /\ ret.val.maxNumResults = declared.max_num_results

\* an AiSearch adopted a foreign instance whose settings differ from the
\* declared ones, on the scope's adopt flag
C1_Witness ==
  /\ kind = "AiSearch" /\ phase = "create" /\ pc = "done" /\ ret.tag = "output"
  /\ FailedCreates("exists") # {}
  /\ props.adopt = "unset" /\ scope.adopt = "true"
  /\ props.maxNumResults = 25 /\ DeclaredSource = "s2"
  /\ ret.val.maxNumResults = 25

\* C2: when the create is refused because the object exists and the adopt
\* flag in force is not true, AiSearch, D1Database and VpcService throw the
\* provider's error as it is, and issue no lookup and no update call.
C2_NoAdoptRethrows ==
  (kind \in {"AiSearch", "D1Database", "VpcService"} /\ Running /\ DeclaredAdopt # "true") =>
    \A i \in FailedCreates("exists") :
      /\ pc = "done"
      /\ i = Len(calls)
      /\ calls[i].err = ExistsErr(kind)
      /\ ret = RetThrow(calls[i].err)
      /\ CallsOf("get") \cup CallsOf("list") \cup CallsOf("update") = {}

\* a VpcService declared with adopt: false in an adopting scope hit a collision
C2_Witness ==
  /\ kind = "VpcService" /\ phase = "create" /\ pc = "done"
  /\ props.adopt = "false" /\ scope.adopt = "true"
  /\ FailedCreates("exists") # {}
  /\ ret = RetThrow(ExistsErr("VpcService"))

----------------------------------------------------------------------------
(* Properties of the delete phase *)

\* C3: the delete phase of an AiSearch, AiSearchToken or D1Database declared
\* with delete: false issues no provider delete call and still returns the
\* destroy sentinel.
C3_DeleteGuard ==
  (/\ kind \in {"AiSearch", "AiSearchToken", "D1Database"}
   /\ phase = "delete" /\ pc = "done" /\ props.delete = "false") =>
    /\ CallsOf("delete") \cup CallsOf("deleteIndex") = {}
    /\ ret = RetDestroy

\* C4: a delete phase that ends without an error ends with the destroy
\* sentinel, for every handler and in every scope mode; it never returns an
\* ordinary output.
C4_DeleteReturnsSentinel ==
  (phase = "delete" /\ pc = "done" /\ ret.tag # "throw") => ret = RetDestroy

----------------------------------------------------------------------------
(* Properties of replacement *)

\* the remote object an output of a replaceable resource stands for exists
Live(o) ==
  IF kind = "DefaultRole" THEN remote[<<o.database, o.branch>>].exists
  ELSE HasId(o) => remote[NameOf(o.id)].exists

\* C5: after replace() of a D1Database (changed name) or a DefaultRole
\* (changed database or branch) the old object's delete phase runs only once
\* the new create has completed and its output is persisted; while the
\* create runs, and after it failed, the old output is kept and is not
\* scheduled for deletion.
C5_CreateBeforeDelete ==
  (kind \in {"D1Database", "DefaultRole"}) =>
    /\ mode = "replace" =>
         /\ phase = "create" /\ pending = <<>>
         /\ store.has /\ Live(store.output)
    /\ pending # <<>> =>
         /\ Len(pending) = 1
         /\ store.has /\ store.output # Head(pending).output
         /\ mode \in {"idle", "sweep"}
    /\ mode = "sweep" =>
         /\ phase = "delete" /\ pending # <<>>
         /\ output = Head(pending).output
         /\ (calls = <<>> \/ pc = "done") => Live(store.output)

\* the old branch's role was reset in a sweep after the replacement's
\* create was persisted
C5_Witness ==
  /\ kind = "DefaultRole" /\ mode = "sweep" /\ pc = "done" /\ ret = RetDestroy
  /\ Len(calls) = 1 /\ calls[1].op = "reset"
  /\ calls[1].target = <<output.database, output.branch>>
  /\ calls[1].target # <<store.output.database, store.output.branch>>

\* the type and source identity a prior AiSearch output records, under the
\* current or the legacy property names
PriorType(o) == IF "sourceType" \in DOMAIN o THEN o.sourceType ELSE o.type
PriorSource(o) ==
  IF "sourceBucket" \in DOMAIN o THEN o.sourceBucket
  ELSE IF "sourceDomain" \in DOMAIN o THEN o.sourceDomain
  ELSE o.source

\* C6: in an update of an AiSearch whose prior output has an id, once the
\* source and the token are normalized without an error, the handler
\* requests a replacement exactly when the normalized type or source differs
\* from the prior output's (current or legacy names); it then issues no
\* create and no update call; otherwise it issues exactly one update call,
\* to the prior id.
C6_AiSearchReplacement ==
  (/\ kind = "AiSearch" /\ phase = "update" /\ pc = "done"
   /\ HasId(output) /\ calls # <<>> /\ calls[1].err = NoErr
   /\ ret.err.cause # "handler"
   /\ \A i \in CallsOf("registerToken") : calls[i].err = NoErr) =>
    LET differs == \/ props.source.type # PriorType(output)
                   \/ DeclaredSource # PriorSource(output)
    IN
    /\ (ret.tag = "replace") <=> differs
    /\ differs => CallsOf("create") \cup CallsOf("update") = {}
    /\ ~differs =>
         /\ CallsOf("create") = {}
         /\ Cardinality(CallsOf("update")) = 1
         /\ \A i \in CallsOf("update") : calls[i].target = output.id

\* a record of the legacy shape is replaced because its bucket changed
C6_Witness ==
  /\ kind = "AiSearch" /\ phase = "update" /\ pc = "done"
  /\ "sourceBucket" \in DOMAIN output
  /\ props.source.type = "r2" /\ DeclaredSource # output.sourceBucket
  /\ ret.tag = "replace"

\* the declared location hint is set and is not the prior output's
HintDiffers ==
  /\ props.primaryLocationHint # "unset"
  /\ props.primaryLocationHint # output.primaryLocationHint

\* the declaration names the database the prior output names
SameName == props.name = "unset" \/ props.name = output.name

\* C7 as stated: in the update phase of a D1Database a declared
\* primaryLocationHint that differs from the prior output's makes the
\* handler request a replacement (read here for the remote update of a
\* database whose name did not change).
C7_HintChangeReplaces ==
  (/\ kind = "D1Database" /\ phase = "update" /\ pc = "done"
   /\ HintDiffers /\ SameName /\ ~scope.local /\ HasId(output)) =>
    ret.tag = "replace"

\* C7 as the handler behaves: a replacement is requested exactly when the
\* database name changed; with the name unchanged, outside local mode and
\* with an id in the prior output, a differing primaryLocationHint makes the
\* handler throw its own error before any provider call.
C7_HintChangeThrows ==
  (kind = "D1Database" /\ phase = "update" /\ pc = "done") =>
    /\ (ret.tag = "replace") <=> ~SameName
    /\ (HintDiffers /\ SameName /\ ~scope.local /\ HasId(output)) =>
         /\ calls = <<>>
         /\ ret.tag = "throw"
         /\ ret.err.cause = "handler"

\* an update declared a location hint on a database created without one
C7_Witness ==
  /\ kind = "D1Database" /\ phase = "update" /\ pc = "done"
  /\ HintDiffers /\ SameName /\ ~scope.local /\ HasId(output)
  /\ output.primaryLocationHint = "unset" /\ props.primaryLocationHint = "wnam"
  /\ ret.tag = "throw"

----------------------------------------------------------------------------
(* Properties every adopting handler is expected to share *)

\* C8: in AiSearch, AiSearchToken, D1Database and VpcService the adopt flag
\* in force is the declared one when set, else the scope's: after a
\* collision on create the handler goes on to look the object up exactly
\* when that flag is true.
C8_EffectiveAdopt ==
  (kind \in AdoptingKinds /\ Running /\ pc = "done") =>
    \A i \in FailedCreates("exists") : (DeclaredAdopt = "true") <=> (Len(calls) > i)

\* C9: a create error that is not a collision is thrown as it is, also when
\* the adopt flag is true: no handler goes on to adopt after it.
C9_OtherErrorsPropagate ==
  (kind \in AdoptingKinds /\ Running) =>
    \A i \in FailedCreates("fault") :
      pc = "done" => ret = RetThrow(calls[i].err)

\* C10: an adopting handler that returns an output after a failed create
\* has found the object by name and issued an update call to it.
C10_AdoptionUpdates ==
  (kind \in AdoptingKinds /\ Running /\ pc = "done" /\ ret.tag = "output") =>
    \A i \in 1..Len(calls) :
      (calls[i].op = "create" /\ calls[i].err # NoErr) =>
        \E j \in CallsOf("update") : j > i /\ calls[j].err = NoErr

----------------------------------------------------------------------------
(* Properties of the delete phase, continued *)

\* C11: VpcService and DefaultRole honour the delete guard too: declared
\* with delete: false, their delete phase makes no destructive provider call
\* and still returns the destroy sentinel.
C11_DeleteGuardEverywhere ==
  (/\ kind \in {"VpcService", "DefaultRole"}
   /\ phase = "delete" /\ pc = "done" /\ props.delete = "false") =>
    /\ CallsOf("delete") \cup CallsOf("reset") = {}
    /\ ret = RetDestroy

\* the provider answered the delete with success or with "not found"
Gone(e) == e = NoErr \/ (e.api /\ e.status = StatusNotFound)

\* the handler side of C12: a delete answered with 404 counts as done, any
\* other failure of the delete is thrown as it is
C12_Handler ==
  (phase = "delete" /\ pc = "done") =>
    \A i \in CallsOf("delete") :
      /\ i = Len(calls)
      /\ Gone(calls[i].err) => ret = RetDestroy
      /\ ~Gone(calls[i].err) => ret = RetThrow(calls[i].err)

\* the engine side of C12: after a delete phase that threw, the record and
\* the pending deletions are as before, so the delete is due again
C12_RecordStays ==
  (phase = "delete" /\ pc = "done" /\ ret.tag = "throw") =>
    /\ store' = store /\ pending' = pending /\ pc' = "idle"
    /\ mode = "destroy" => store.has /\ store.output = output
    /\ mode = "sweep" => pending # <<>> /\ Head(pending).output = output

\* C12: a provider delete that answers 404 is treated as success and the
\* handler returns the destroy sentinel; a provider delete that fails with
\* any other error is thrown, the sentinel is not returned, and the record
\* stays so that a later run retries the delete.
C12_DeleteErrors == []C12_Handler /\ [][C12_RecordStays]_vars

\* a destroy found the remote object already gone and ended with the sentinel
C12_Witness404 ==
  /\ phase = "delete" /\ mode = "destroy" /\ pc = "done"
  /\ calls # <<>> /\ calls[Len(calls)].op = "delete"
  /\ calls[Len(calls)].err = NotFoundErr
  /\ ret = RetDestroy

----------------------------------------------------------------------------
(* Properties of validation *)

\* the declaration of an AiSearch fails one of the handler's checks
AiSearchInvalid ==
  \/ Len(props.name) < 1 \/ Len(props.name) > 32
  \/ /\ props.source.type = "web-crawler"
     /\ props.source.domain \in {"https://s1", "s1/docs"}
  \/ props.tokenId \in BadTokenIds
  \/ (props.tokenId = "unset" /\ props.token.tokenId \in BadTokenIds)

\* C13: when the declared properties of an AiSearch fail validation (name
\* length outside 1-32, a web-crawler domain with "://" or "/", a tokenId or
\* token.tokenId that is no UUID), the handler throws that error before any
\* call to the provider has been issued.
C13_ValidationBeforeCalls ==
  (kind = "AiSearch" /\ Running /\ pc = "done" /\ AiSearchInvalid) =>
    /\ ret.tag = "throw"
    /\ ret.err.cause = "handler"
    /\ calls = <<>>

----------------------------------------------------------------------------
(* Properties of failure recovery *)

\* no call of the run was answered with a failure of the provider's own
Unfaulted == \A i \in 1..Len(calls) : calls[i].err.cause # "fault"

\* the run's create call named an object that an earlier, failed run of the
\* same declaration left
RetriesOrphan ==
  \E i \in CallsOf("create") : [name |-> calls[i].target, props |-> props] \in orphans

C14_NothingPersisted ==
  (mode = "apply" /\ phase = "create" /\ pc = "done" /\ ret.tag = "throw") =>
    /\ ~store.has
    /\ store' = store

C14_RerunCompletes ==
  (mode = "apply" /\ phase = "create" /\ pc = "done" /\ RetriesOrphan /\ Unfaulted) =>
    ret.tag = "output"

\* C14: when a create-phase apply fails after the remote object was created,
\* no record is persisted, and the next apply runs the create phase again
\* and ends with an output once no step fails any more.
C14_PartialCreateRecovers == []C14_RerunCompletes /\ [][C14_NothingPersisted]_vars

----------------------------------------------------------------------------
(* Properties of a repeated apply *)

\* the handler runs for the declaration that wrote the record it updates
SameDeclaration == mode = "apply" /\ phase = "update" /\ props = applied

\* the provider calls that create, change or delete a remote object
Mutations == {"create", "update", "delete", "reset", "accountToken"}

C15_OneUpdateAtMost ==
  (SameDeclaration /\ pc = "done") =>
    /\ \A i \in 1..Len(calls) :
         calls[i].op \in Mutations =>
           /\ calls[i].op = "update" /\ i = Len(calls)
           /\ kind \in {"AiSearch", "D1Database", "VpcService"}
    /\ Unfaulted => ret = RetOutput(store.output)

\* no step of the second run changes the provider's state or the record
C15_NothingChanges == SameDeclaration => (remote' = remote /\ store' = store)

----------------------------------------------------------------------------
(* Properties of the create-then-destroy round trip *)

\* the name of the remote object an output of the running kind records
RecordedName(o) ==
  CASE kind = "AiSearch" -> o.id
    [] kind = "AiSearchToken" -> NameOf(o.tokenId)
    [] kind = "VpcService" -> NameOf(o.serviceId)
    [] kind = "D1Database" -> NameOf(o.id)

\* the delete phase runs for a recorded resource only, on its recorded output
C16_DeleteOfRecord ==
  mode = "destroy" => (phase = "delete" /\ store.has /\ output = store.output)

\* when the delete phase of a resource that is to be deleted has returned
\* the sentinel, its remote object is gone
C16_RemoteGone ==
  (/\ mode = "destroy" /\ pc = "done" /\ ret = RetDestroy
   /\ kind \in AdoptingKinds /\ ~scope.local
   /\ props.delete # "false") =>
    ~remote[RecordedName(output)].exists

\* the sentinel ends the destroy: the record is removed and the engine idle
C16_RecordRemoved ==
  (mode = "destroy" /\ pc = "done" /\ ret = RetDestroy) =>
    (store' = NoRecord /\ pc' = "idle" /\ mode' = "idle")

\* a record appears only when a create phase returns an output
C16_NoReappearance ==
  (~store.has /\ store'.has) =>
    (phase = "create" /\ mode = "apply" /\ pc = "done" /\ ret.tag = "output")

----------------------------------------------------------------------------
(* Properties of a run of several resources *)

\* the handler of r begins in this step
Begins(r) == r \notin running /\ r \in running'

\* C17: when B's properties reference A's output, A's handler has returned
\* before B's begins in the apply, and in the sweep B's delete phase has
\* returned, and B's record is removed, before A's delete phase begins.
C17_DependencyOrder ==
  [][\A a \in DOMAIN Deps : \A b \in Dependents(a) :
       /\ (stage = "apply" /\ Begins(b)) => (a \in seen /\ a \notin running)
       /\ (stage = "sweep" /\ Begins(a)) => (b \notin records /\ b \notin running)]_vars

\* a worker bound to a bucket: the bucket's delete phase runs after the
\* worker's record was removed
C17_Witness ==
  /\ stage = "sweep" /\ "bucket" \in running
  /\ {"worker", "rag"} \subseteq attempted
  /\ {"worker", "rag"} \cap records = {}

\* r and f are the same record or one references the other's output
Related(r, f) == r = f \/ r \in Deps[f] \/ f \in Deps[r]

\* the sweep has attempted every unseen record that no failed record is
\* related to
AllIndependentAttempted ==
  \A r \in records \ seen : (\A f \in failed : ~Related(r, f)) => r \in attempted

\* between two deletes of a sweep, the records whose delete returned are
\* removed and the records whose delete threw are kept
C18_Records ==
  (stage = "sweep" /\ running = {}) =>
    /\ (attempted \ failed) \cap records = {}
    /\ failed \subseteq records

\* the sweep ends, and raises its error, only after the last attempt; it
\* raises one exactly when a delete failed
C18_Raise ==
  (stage = "sweep" /\ stage' # "sweep") =>
    /\ running = {} /\ AllIndependentAttempted
    /\ records' = records
    /\ raised' = (IF failed = {} THEN "none" ELSE "sweep")

\* no error of the sweep is raised while it runs
C18_NotBefore == stage = "sweep" => raised = "none"

\* C18: in the sweep after finalize() a failed delete does not end the
\* sweep: every unseen record unrelated to a failed one is still attempted,
\* the records whose delete returned are removed, the failed ones stay, and
\* one error is raised after the last attempt.
C18_SweepContinues == [](C18_Records /\ C18_NotBefore) /\ [][C18_Raise]_vars

\* the delete of the worker failed and the sweep goes on with rag
C18_Witness ==
  /\ stage = "sweep" /\ failed = {"worker"}
  /\ running = {"rag"}
  /\ "worker" \in records

----------------------------------------------------------------------------
(* Properties of the service token *)

\* the declaration of the running AiSearch names no token
NoTokenDeclared == kind = "AiSearch" /\ Running /\ props.tokenId = "unset" /\ props.token = NoToken

\* the calls that make an account API token and register a service token
TokenCalls == CallsOf("accountToken") \cup CallsOf("registerToken")

\* C19: when an AiSearch is declared without token or tokenId and the
\* account already holds AI Search service tokens, the handler creates no
\* token; it has an account API token made and registered only when the
\* account holds no service token.
C19_NoTokenWhenTokensExist ==
  (NoTokenDeclared /\ TokenCalls # {}) =>
    account.service \subseteq {calls[i].target : i \in CallsOf("registerToken")}

\* the delete phase of a resource that is to be deleted returned the sentinel
Destroyed == mode = "destroy" /\ pc = "done" /\ ret = RetDestroy /\ props.delete # "false"

\* the registration of a destroyed AiSearchToken is gone
C20_RegistrationDeleted ==
  (kind = "AiSearchToken" /\ Destroyed /\ "tokenId" \in DOMAIN output) =>
    ~remote[output.tokenId[2]].exists

\* the destroy takes the child resources along: the account API token of an
\* AiSearchToken, and the service token an AiSearch made for itself
C20_ChildrenDeleted ==
  Destroyed =>
    /\ nested' = {}
    /\ "account-token" \in nested => "account-token" \notin account'.api
    /\ "token" \in nested => createPhysicalName \notin account'.service

\* C20: when an AiSearchToken is destroyed, its registration and the account
\* API token under it are deleted; when an AiSearch that made its own token
\* is destroyed, that token is deleted too.
C20_TokensCleanedUp == []C20_RegistrationDeleted /\ [][C20_ChildrenDeleted]_vars

\* an AiSearch that made its own token has returned the sentinel
C20_Witness ==
  /\ kind = "AiSearch" /\ Destroyed
  /\ {"token", "account-token"} \subseteq nested
  /\ createPhysicalName \in account.service
  /\ CallsOf("delete") # {}

\* the create and update calls of the running invocation
PayloadCalls == CallsOf("create") \cup CallsOf("update")

\* C21: the token_id in every payload an AiSearch sends is props.tokenId when
\* it is given, else props.token.tokenId when a token resource is given, else
\* the tokenId of the child AiSearchToken the handler declares; with an
\* explicit token or tokenId the handler declares no child token.
C21_PayloadTokenId ==
  (kind = "AiSearch" /\ Running) =>
    /\ props.tokenId # "unset" =>
         /\ \A i \in PayloadCalls : calls[i].body.token_id = props.tokenId
         /\ TokenCalls = {}
    /\ (props.tokenId = "unset" /\ props.token # NoToken) =>
         /\ \A i \in PayloadCalls : calls[i].body.token_id = props.token.tokenId
         /\ TokenCalls = {}
    /\ (props.tokenId = "unset" /\ props.token = NoToken) =>
         /\ \A i \in PayloadCalls : calls[i].body.token_id = ChildTokenId
         /\ PayloadCalls # {} =>
              ("token" \in nested /\ createPhysicalName \in account.service)

\* an AiSearch declared with a token resource has sent its payload and
\* returned
C21_Witness ==
  /\ kind = "AiSearch" /\ phase = "create" /\ pc = "done" /\ ret.tag = "output"
  /\ props.tokenId = "unset" /\ props.token = [tokenId |-> ValidTokenId]
  /\ \E i \in CallsOf("create") : calls[i].body.token_id = ValidTokenId

----------------------------------------------------------------------------
(* Properties of the default role *)

\* the create phase of a DefaultRole declared without forceReset
CreatesWithoutReset ==
  kind = "DefaultRole" /\ phase = "create" /\ props.forceReset # "true"

\* the existence checks that found a role, or failed with something other
\* than a 404
Refusals ==
  {i \in CallsOf("get") : calls[i].err = NoErr \/ calls[i].err.status # StatusNotFound}

\* a refused existence check ends the handler with an error, and no reset is
\* ever issued without an existence check answered 404 before it
C22_Refused ==
  CreatesWithoutReset =>
    /\ Refusals # {} =>
         /\ pc = "done" /\ ret.tag = "throw" /\ ret.err.cause = "handler"
         /\ CallsOf("reset") = {}
    /\ \A j \in CallsOf("reset") :
         \E i \in CallsOf("get") : i < j /\ calls[i].err.status = StatusNotFound

\* the step that answers the existence check of an existing role leaves the
\* provider's roles as they are
C22_RoleKept ==
  (CreatesWithoutReset /\ pc = "role_check" /\ remote[<<props.database, Coalesce(props.branch, "main")>>].exists) =>
    /\ remote' = remote
    /\ pc' = "done"
    /\ ret'.tag = "throw"

\* C22: in the create phase of a DefaultRole without forceReset, when a
\* default role already exists for the database and branch the handler
\* throws and issues no reset call, so the existing credentials stay valid;
\* when the existence check fails with an error other than a 404 the handler
\* throws as well, without a reset.
C22_ExistingRoleRefused == []C22_Refused /\ [][C22_RoleKept]_vars

\* the create phase found the default role of another owner and threw
C22_Witness ==
  /\ CreatesWithoutReset /\ pc = "done" /\ ret.tag = "throw"
  /\ \E i \in CallsOf("get") : calls[i].err = NoErr
  /\ remote[<<props.database, Coalesce(props.branch, "main")>>] = [exists |-> TRUE, version |-> 1]

\* C23: applying a DefaultRole with forceReset: true while a default role
\* exists for the database and branch resets that role, and the output
\* carries the credentials the reset produced.
C23_ForceResetResets ==
  (/\ kind = "DefaultRole" /\ Running /\ props.forceReset = "true"
   /\ pc = "done" /\ ret.tag = "output") =>
    LET t == <<props.database, Coalesce(props.branch, "main")>> IN
    /\ \E i \in CallsOf("reset") : calls[i].target = t /\ calls[i].err = NoErr
    /\ ret.val.password.unencrypted = <<"password", t, remote[t].version>>

----------------------------------------------------------------------------
(* Properties of the source of an AiSearch *)

\* C24: a web-crawler source whose domain is given with a protocol is
\* accepted by AiSearch: the handler does not refuse the domain's format, and
\* the domain it has validated and sends to the provider is the domain
\* without the protocol.
C24_ProtocolStripped ==
  (/\ kind = "AiSearch" /\ Running /\ pc = "done"
   /\ props.source = [type |-> "web-crawler", domain |-> "https://s1"]) =>
    /\ ret # RetThrow(HandlerErr("invalid domain format: not a URL"))
    /\ \A i \in 1..Len(calls) :
         /\ calls[i].op = "validateSource" => calls[i].target = "s1"
         /\ calls[i].op \in {"create", "update"} => calls[i].body.source = "s1"

\* C25: when the source of an AiSearch is an R2 source object that sets a
\* jurisdiction, that jurisdiction is the one the bucket is validated with
\* and the one sent as r2_jurisdiction (left out when it is "default"),
\* whether the bucket is given by its name or as an R2Bucket resource.
C25_SourceJurisdiction ==
  (/\ kind = "AiSearch" /\ Running
   /\ props.source.type = "r2" /\ "jurisdiction" \in DOMAIN props.source) =>
    \A i \in 1..Len(calls) :
      /\ calls[i].op = "validateSource" =>
           calls[i].body.jurisdiction = props.source.jurisdiction
      /\ calls[i].op \in {"create", "update"} =>
           calls[i].body.r2_jurisdiction =
             (IF props.source.jurisdiction = "default"
              THEN "unset" ELSE props.source.jurisdiction)

----------------------------------------------------------------------------
(* Properties of credentials *)

\* the credential v is Secret-wrapped
Wrapped(v) == DOMAIN v = {"secret", "unencrypted"} /\ v.secret

\* every credential of a returned output is Secret-wrapped; the credentials
\* of an AiSearchToken and of a DefaultRole carry the plaintext the provider
\* gave, also when the output is the reloaded record of an update phase
C26_Returned ==
  (pc = "done" /\ ret.tag = "output") =>
    /\ kind = "AiSearchToken" =>
         /\ Wrapped(ret.val.cfApiKey)
         /\ ret.val.cfApiKey.unencrypted = "account-token-value"
    /\ kind = "DefaultRole" =>
         /\ Wrapped(ret.val.password)
         /\ Wrapped(ret.val.connectionUrl)
         /\ Wrapped(ret.val.connectionUrlPooled)
         /\ \E v \in 1..MaxResets :
              ret.val.password.unencrypted = <<"password", <<ret.val.database, ret.val.branch>>, v>>
         /\ ret.val.connectionUrl.unencrypted =
              <<"postgresql", ret.val.username, ret.val.password.unencrypted, 5432>>
         /\ ret.val.connectionUrlPooled.unencrypted =
              <<"postgresql", ret.val.username, ret.val.password.unencrypted, 6432>>

\* the record handed to a handler is the output the handler returned before
C26_Reloaded ==
  (pc = "idle" /\ pc' = "start" /\ mode' \in {"apply", "destroy"}) => output' = store.output

\* C26: the credentials in the outputs of AiSearchToken (cfApiKey, on the
\* create path and on the adoption path) and DefaultRole (password,
\* connectionUrl, connectionUrlPooled) are Secret-wrapped, never plain
\* strings, and an output that was stored and reloaded for the update phase
\* is still Secret-wrapped with the same plaintext.
C26_CredentialsWrapped == []C26_Returned /\ [][C26_Reloaded]_vars

\* the update phase of a DefaultRole returned the reloaded output
C26_Witness ==
  /\ kind = "DefaultRole" /\ phase = "update" /\ pc = "done" /\ ret.tag = "output"
  /\ ret.val.password = [secret |-> TRUE, unencrypted |-> <<"password", <<"a", "dev">>, 1>>]

----------------------------------------------------------------------------
(* Properties of AiCrawler *)

\* the URL u starts with a protocol
HasProtocol(u) ==
  \/ Len(u) >= 7 /\ SubSeq(u, 1, 7) = "http://"
  \/ Len(u) >= 8 /\ SubSeq(u, 1, 8) = "https://"

\* the hostname of a URL of CrawlerUrls
Hostname(u) == IF u = "https://s2/blog" THEN "s2" ELSE "s1"

\* C27: AiCrawler throws when it is given no URL and when the URLs do not
\* all share one hostname; otherwise it returns a source of type
\* "web-crawler" whose domain is that hostname; and a URL given without a
\* protocol gives the result the same URL gives with https:// before it.
C27_AiCrawlerDomain ==
  (eval # Nil /\ eval.fn = "AiCrawler") =>
    LET urls == eval.arg
        hosts == {Hostname(urls[i]) : i \in 1..Len(urls)}
        withHttps == [i \in 1..Len(urls) |->
                        IF HasProtocol(urls[i]) THEN urls[i] ELSE "https://" \o urls[i]]
    IN
    /\ Cardinality(hosts) # 1 => eval.val.tag = "throw"
    /\ Cardinality(hosts) = 1 =>
         /\ eval.val.tag = "return"
         /\ eval.val.value.type = "web-crawler"
         /\ eval.val.value.domain \in hosts
    /\ eval.val = AiCrawler(withHttps)

\* the paths of the URLs AiCrawler returned a source for, without the root
\* paths, in input order
NonRootPaths ==
  SelectSeq([i \in 1..Len(eval.arg) |-> parseUrl(eval.arg[i]).path], LAMBDA q : q # "/")

\* the path without its leading slash, between the wildcards
Pattern(q) == "**/" \o SubSeq(q, 2, Len(q)) \o "**"

\* C28 as stated: AiCrawler maps each URL that has a non-root path p to the
\* include pattern "**/p**" (leading slash removed), in input order, and
\* returns no includePaths when every URL is a root URL.
C28_IncludePatterns ==
  (eval # Nil /\ eval.fn = "AiCrawler" /\ eval.val.tag = "return") =>
    IF Len(NonRootPaths) = 0
    THEN "includePaths" \notin DOMAIN eval.val.value
    ELSE /\ "includePaths" \in DOMAIN eval.val.value
         /\ eval.val.value.includePaths =
              [i \in 1..Len(NonRootPaths) |-> Pattern(NonRootPaths[i])]

\* C28: AiCrawler maps each URL whose path p is neither "/" nor "//" to the
\* include pattern "**/p**" (leading slash removed) and a URL whose path is
\* "//" to the pattern "**", in input order, and returns no includePaths
\* when every URL has the path "/".
C28_IncludePatternsButEmptySegment ==
  (eval # Nil /\ eval.fn = "AiCrawler" /\ eval.val.tag = "return") =>
    IF Len(NonRootPaths) = 0
    THEN "includePaths" \notin DOMAIN eval.val.value
    ELSE /\ "includePaths" \in DOMAIN eval.val.value
         /\ eval.val.value.includePaths =
              [i \in 1..Len(NonRootPaths) |->
                 IF NonRootPaths[i] = "//" THEN "**" ELSE Pattern(NonRootPaths[i])]

\* AiCrawler returned the patterns of a path with an empty segment and of a
\* path of one segment
C28_Witness ==
  /\ eval # Nil /\ eval.fn = "AiCrawler"
  /\ eval.arg = <<"https://s1//", "s1/blog">>
  /\ eval.val = Returned([type |-> "web-crawler", domain |-> "s1",
                          includePaths |-> <<"**", "**/blog**">>])

----------------------------------------------------------------------------
(* Properties of snakeToCamelObjectDeep *)

\* each key of JsonKeys with every underscore that a lowercase letter
\* follows removed and that letter in upper case
CamelKey ==
  [k \in JsonKeys |->
     CASE k = "foo_bar" -> "fooBar"
       [] k = "a_b_c" -> "aBC"
       [] k = "a__b" -> "a_B"
       [] k = "_a" -> "A"
       [] OTHER -> k]

\* b is a with the keys of every object renamed, at every depth, and
\* everything else as it is: every key of a is in b under its new name, and
\* every entry of b is an entry of a under its new name
RECURSIVE Renamed(_, _)
Renamed(a, b) ==
  IF a.t = "object"
  THEN /\ b.t = "object"
       /\ \A i \in 1..Len(a.v) : \E j \in 1..Len(b.v) :
            b.v[j][1] = CamelKey[a.v[i][1]]
       /\ \A j \in 1..Len(b.v) : \E i \in 1..Len(a.v) :
            b.v[j][1] = CamelKey[a.v[i][1]] /\ Renamed(a.v[i][2], b.v[j][2])
  ELSE IF a.t = "array"
  THEN /\ b.t = "array" /\ Len(b.v) = Len(a.v)
       /\ \A i \in 1..Len(a.v) : Renamed(a.v[i], b.v[i])
  ELSE b = a

\* C29: snakeToCamelObjectDeep renames every object key at every nesting
\* depth, also in objects inside arrays, by removing each underscore that a
\* lowercase letter follows and putting that letter in upper case, and it
\* leaves everything that is not a key as it is: primitives, null,
\* undefined, strings that hold underscores, Date and RegExp instances, and
\* the order and length of arrays.
C29_KeysRenamedDeep ==
  (eval # Nil /\ eval.fn = "snakeToCamelObjectDeep") =>
    /\ eval.val.tag = "return"
    /\ Renamed(eval.arg, eval.val.value)

\* an object inside an array had its key renamed and kept its string
C29_Witness ==
  /\ eval # Nil /\ eval.fn = "snakeToCamelObjectDeep"
  /\ eval.arg = Json("array", <<Json("object", <<<<"a__b", Json("string", "snake_case")>>>>),
                                Json("number", 1)>>)
  /\ eval.val.value =
       Json("array", <<Json("object", <<<<"a_B", Json("string", "snake_case")>>>>),
                       Json("number", 1)>>)

----------------------------------------------------------------------------
(* Properties of a replacement under the same name *)

\* C30: after an AiSearch replacement for a changed source under an
\* unchanged name has completed, one instance of that name exists with the
\* provider and carries the new source; the deletion of the old instance
\* never removes the new one, and at no time is there no instance of that
\* name: the instance exists while the replacement's create runs and while
\* and after the old output's delete phase runs.
C30_SameNameReplacementKeepsInstance ==
  kind = "AiSearch" =>
    /\ (/\ mode = "replace" /\ store.has /\ HasId(store.output)
        /\ AiSearchName(props) = store.output.id) =>
         remote[store.output.id].exists
    /\ (/\ mode = "sweep" /\ store.has /\ HasId(output) /\ HasId(store.output)
        /\ output.id = store.output.id) =>
         /\ remote[store.output.id].exists
         /\ remote[store.output.id].source = store.output.source
         /\ \A i \in CallsOf("delete") : calls[i].target # store.output.id

----------------------------------------------------------------------------
(* Properties of the child resources across runs *)

\* C31: when the update phase of an AiSearchToken has returned and its
\* output is persisted, the account API token the create phase had made is
\* still held by the account and is still on record as a child resource.
C31_AccountTokenSurvivesUpdate ==
  [][(/\ kind = "AiSearchToken" /\ mode = "apply" /\ phase = "update"
      /\ pc = "done" /\ ret.tag = "output"
      /\ "account-token" \in nested /\ "account-token" \in account.api
      /\ pc' = "idle") =>
       /\ "account-token" \in nested'
       /\ "account-token" \in account'.api]_vars

----------------------------------------------------------------------------
(* Properties of Promise.all in AiSearch *)

\* the handler of an AiSearch threw in this invocation
AiSearchThrew == kind = "AiSearch" /\ Running /\ pc = "done" /\ ret.tag = "throw"

\* the source's validation failed: its format was refused, or the provider
\* refused the bucket or the domain
SourceRejected ==
  \/ ret.err = SourceFormatError(props.source)
  \/ \E i \in CallsOf("validateSource") : calls[i].err \in Faults

\* C32: when the source validation of an AiSearch apply fails, that apply
\* has made no account API token and applied no AiSearchToken child; and when
\* the token resolution fails, no source validation request is left
\* unanswered once the handler has thrown.
C32_PromiseAllLeavesNothing ==
  AiSearchThrew =>
    /\ SourceRejected => TokenCalls = {}
    /\ \A i \in CallsOf("validateSource") : calls[i].err # Unanswered

----------------------------------------------------------------------------
(* Properties of runAiSearchJob *)

\* C33: once the poll of the job has ended, resolved or rejected, pollLogs
\* issues at most one more request for the logs, and after the answer to
\* that request the loop has stopped.
C33_LogLoopStops ==
  job.poll \in {"resolved", "rejected"} =>
    /\ job.after <= 1
    /\ job.after = 1 => job.logs \in {"request", "stopped", "thrown"}

----------------------------------------------------------------------------
(* Properties of indexing *)

\* C34: the AiSearch handler runs an indexing job exactly when it took the
\* create branch, by a fresh create or by adoption, and indexOnCreate is not
\* false: the job is run once, on the instance just created or adopted, and
\* the output is returned only after the job has ended; on the update branch
\* and with indexOnCreate false no job is run.
C34_IndexOnCreateOnly ==
  (kind = "AiSearch" /\ Running) =>
    LET jobs == CallsOf("runJob")
        createBranch == ~(phase = "update" /\ HasId(output))
        wanted == createBranch /\ props.indexOnCreate # "false"
    IN
    /\ jobs # {} =>
         /\ wanted /\ Cardinality(jobs) = 1
         /\ \A i \in jobs :
              /\ i = Len(calls)
              /\ calls[i - 1].op \in {"create", "update"}
              /\ calls[i - 1].err = NoErr
              /\ calls[i].target = calls[i - 1].target
    /\ (pc = "done" /\ ret.tag = "output") =>
         IF wanted THEN \E i \in jobs : calls[i].err = NoErr
         ELSE jobs = {}

\* an adopted instance was indexed before the output was returned
C34_Witness ==
  /\ kind = "AiSearch" /\ phase = "create" /\ pc = "done" /\ ret.tag = "output"
  /\ props.indexOnCreate = "unset"
  /\ CallsOf("get") # {}
  /\ calls[Len(calls)].op = "runJob" /\ calls[Len(calls)].err = NoErr

----------------------------------------------------------------------------
(* Properties of the delete phase of AiSearch *)

\* C35: in the delete phase of an AiSearch with delete not false and a prior
\* id, the vectorize index is deleted first and the instance after it, and
\* the destroy sentinel is returned only after both deletes returned (the
\* instance delete returns on a 404 too); when the prior output has no id,
\* no delete call is made and the sentinel is returned.
C35_DeleteOrder ==
  (kind = "AiSearch" /\ phase = "delete") =>
    /\ (props.delete # "false" /\ HasId(output)) =>
         /\ Len(calls) <= 2
         /\ Len(calls) >= 1 =>
              calls[1].op = "deleteIndex" /\ calls[1].target = output.vectorizeName
         /\ Len(calls) = 2 =>
              /\ calls[1].err = NoErr
              /\ calls[2].op = "delete" /\ calls[2].target = output.id
         /\ ret = RetDestroy =>
              Len(calls) = 2 /\ calls[2].err \in {NoErr, NotFoundErr}
         /\ pc = "done" => ret.tag \in {"destroy", "throw"}
    /\ ~HasId(output) =>
         /\ calls = <<>>
         /\ pc = "done" => ret = RetDestroy

\* the sentinel was returned after the index and then the instance were
\* deleted
C35_Witness ==
  /\ kind = "AiSearch" /\ phase = "delete" /\ pc = "done" /\ ret = RetDestroy
  /\ props.delete = "unset" /\ HasId(output) /\ output.id = "a"
  /\ Len(calls) = 2
  /\ calls[1] = Call("deleteIndex", VectorizeName("a"), Nil, NoErr)
  /\ calls[2] = Call("delete", "a", Nil, NoErr)
  /\ ~remote["a"].exists

----------------------------------------------------------------------------
(* Properties of the AiSearchToken output *)

\* C36: in every output an AiSearchToken returns, after a create and after
\* an adoption alike, cfApiId is the accountTokenId, and cfApiKey is the
\* secret value of the account API token of that id.
C36_OutputNamesItsAccountToken ==
  (kind = "AiSearchToken" /\ Running /\ pc = "done" /\ ret.tag = "output") =>
    /\ ret.val.cfApiId = ret.val.accountTokenId
    /\ ret.val.accountTokenId = AccountToken.id
    /\ ret.val.cfApiKey.unencrypted = AccountToken.value.unencrypted

----------------------------------------------------------------------------
(* Properties of D1Database in local mode and of its name *)

\* the handler of a D1Database runs in a local scope without dev.remote
LocalRun ==
  /\ kind = "D1Database" /\ phase # "none"
  /\ scope.local
  /\ ("devRemote" \in DOMAIN props => props.devRemote # "true")

\* the name a D1Database declaration resolves to: the declared name, else
\* the prior output's, else the name the scope derives
ResolvedName ==
  IF props.name # "unset" THEN props.name
  ELSE IF output # Nil THEN output.name
  ELSE PhysicalName

\* C37: in a local scope without dev.remote the D1Database handler makes no
\* call to the Cloudflare API in any phase, and the output it returns keeps
\* the prior output's id (the empty id when there is no prior output), the
\* resolved name and the prior output's dev.id.
C37_LocalMakesNoCalls ==
  LocalRun =>
    /\ calls = <<>>
    /\ (pc = "done" /\ ret.tag = "output") =>
         /\ ret.val.id = (IF output # Nil THEN output.id ELSE "")
         /\ ret.val.name = ResolvedName
         /\ output # Nil => ret.val.dev.id = output.dev.id

\* a database that was created remotely is updated in local mode and keeps
\* its id
C37_Witness ==
  /\ LocalRun /\ phase = "update" /\ pc = "done" /\ ret.tag = "output"
  /\ calls = <<>>
  /\ HasId(output) /\ output.id = Uuid("a") /\ ret.val.id = output.id
  /\ ret.val.name = "a" /\ ret.val.dev.id = output.dev.id

\* C38: the name of a D1Database is stable across runs: a declaration
\* without a name resolves to the prior output's name, so the update phase
\* requests a replacement exactly when a declared name differs from the
\* prior output's name, and it does so before any provider call is made.
C38_StableName ==
  (kind = "D1Database" /\ phase = "update" /\ pc # "start") =>
    LET renamed == props.name # "unset" /\ props.name # output.name IN
    /\ props.name = "unset" => loc.name = output.name
    /\ ret.tag = "replace" => (renamed /\ calls = <<>>)
    /\ renamed => (ret.tag = "replace" /\ pc = "done")
    /\ (ret.tag = "output" /\ props.name = "unset") => ret.val.name = output.name

\* a database declared by name and then without one keeps its name
C38_Witness ==
  /\ kind = "D1Database" /\ phase = "update" /\ pc = "done" /\ ret.tag = "output"
  /\ props.name = "unset" /\ output.name = "a" /\ ret.val.name = "a"
  /\ calls # <<>>

\* the VpcService handler has built its input for a hostname host that
\* declares resolver IPs
HostnameInput ==
  /\ kind = "VpcService" /\ Running /\ pc # "start"
  /\ "hostname" \in DOMAIN props.host
  /\ "resolverIps" \in DOMAIN props.host.resolverNetwork

\* C39: for a VpcService hostname host with resolverIps, the payload sent to
\* the provider carries the resolver IPs under resolver_ips of
\* resolver_network and no camelCase key, and the output built from the
\* provider's echo of that payload carries the declared hostname, tunnelId
\* and resolverIps.
C39_ResolverIpsOnTheWire ==
  HostnameInput =>
    LET net == loc.payload.host.resolver_network
        declared == props.host.resolverNetwork IN
    /\ DOMAIN loc.payload.host = {"hostname", "resolver_network"}
    /\ DOMAIN net = {"tunnel_id", "resolver_ips"}
    /\ Field(net, "resolver_ips") = declared.resolverIps
    /\ ret.tag = "output" =>
         /\ ret.val.host.hostname = props.host.hostname
         /\ ret.val.host.resolverNetwork.tunnelId = declared.tunnelId
         /\ ret.val.host.resolverNetwork.resolverIps = declared.resolverIps

\* the part of C39 the handler does keep: hostname and tunnel id travel
\* under their wire names and come back as declared
C39_HostnameAndTunnelRoundTrip ==
  HostnameInput =>
    /\ loc.payload.host.hostname = props.host.hostname
    /\ loc.payload.host.resolver_network.tunnel_id = props.host.resolverNetwork.tunnelId
    /\ "tunnelId" \notin DOMAIN loc.payload.host.resolver_network
    /\ ret.tag = "output" =>
         /\ ret.val.host.hostname = props.host.hostname
         /\ ret.val.host.resolverNetwork.tunnelId = props.host.resolverNetwork.tunnelId

\* a hostname service was created and its output returned
C39_Reached ==
  /\ HostnameInput /\ phase = "create" /\ pc = "done" /\ ret.tag = "output"
  /\ "resolverIps" \in DOMAIN loc.payload.host.resolver_network
  /\ ret.val.host.resolverNetwork.resolverIps = Nil

\* the DefaultRole handler has run its update phase
DefaultRoleUpdated == kind = "DefaultRole" /\ phase = "update" /\ pc # "start"

\* C40: the update phase of DefaultRole makes no remote call; it returns the
\* prior output unchanged when the resolved database and branch equal those
\* of the prior output, and calls replace() when either differs.
C40_UpdateIsLocal ==
  DefaultRoleUpdated =>
    /\ pc = "done" /\ calls = <<>>
    /\ IF props.database = output.database /\ DefaultRoleBranch(props) = output.branch
       THEN ret = RetOutput(output)
       ELSE ret.tag = "replace"

\* a role created on the default branch is declared on another branch of the
\* same database, and the update asks for a replacement
C40_Witness ==
  /\ DefaultRoleUpdated /\ ret.tag = "replace" /\ calls = <<>>
  /\ props.database = output.database
  /\ props.branch = "dev" /\ output.branch = "main"

====
